---- MODULE Spec2Model ----
(***************************************************************************)
(* Notebook sanitizer and Colab-badge tools of JovianHQ/notebooks          *)
(* (scripts/clean_notebooks_complete.py, clean_notebooks_smart.py,         *)
(* clean_notebooks.py, capture_tag.py, refresh_tag.py).                    *)
(*                                                                         *)
(* Text model.  A Python string is a sequence of tokens; the string is the *)
(* concatenation of its tokens.  A token is a blank character (" ", "\n",  *)
(* "\t"), a punctuation mark, a number (a maximal run of digits) or a      *)
(* word.  Every pattern the scripts search for is a sequence of tokens, so *)
(* Python's `p in s` is "p is a contiguous subsequence of s", str.lower()  *)
(* maps each token to its lower-case form, and a regular expression is an  *)
(* operator that scans the token sequence the way re scans characters.     *)
(* Multi-word tokens (a whole phrase or a markup fragment) stand for text  *)
(* no pattern can match a part of; they are never adjacent to "jovian".    *)
(***************************************************************************)
EXTENDS Integers, Sequences, FiniteSets, TLC

VARIABLES
    notebook,        \* the persisted document: a sequence of cells
    history,         \* the operations run so far: [op, before], before being
                     \* the persisted document when the operation started
    cells_to_remove, \* the last clean_notebook: the indices it flagged, in
                     \* append order (1-based)
    cells_modified,  \* the last clean_notebook: its count of edited cells
    written,         \* whether the last operation wrote the file
    raised,          \* whether the last operation ended in an exception
    fetch,           \* one call of a network fetch: the function, its retries
                     \* argument, attempt, where the call is, the outcome of
                     \* each urlopen so far and the seconds of each sleep
    command,         \* one run of a script: its name, what happens to each
                     \* document it goes through, the index of the next
                     \* document, and the exit status (-1 while it runs)
    credential       \* one start of a download script: os.environ's value
                     \* for the key, the .env files from the working
                     \* directory upward, the token found, the exit status
                     \* (-1 while it runs) and the requests sent so far

vars == <<notebook, history, cells_to_remove, cells_modified, written, raised,
          fetch, command, credential>>

\* the last operation ("none" at the start), the document it started from,
\* and the number of operations run
op == IF history = <<>> THEN "none" ELSE history[Len(history)].op
before == IF history = <<>> THEN notebook ELSE history[Len(history)].before
runs == Len(history)

----------------------------------------------------------------------------
(* Strings *)

\* str.isspace() for one character
IsSpace(t) == t \in {" ", "\n", "\t"}

\* str.lower(), token by token
Lower(t) ==
    CASE t = "Save" -> "save"
      [] t = "Your" -> "your"
      [] t = "Work" -> "work"
      [] t = "And" -> "and"
      [] t = "Forum" -> "forum"
      [] t = "Community" -> "community"
      [] t = "Ask questions, discuss ideas and get help" ->
             "ask questions, discuss ideas and get help"
      [] t = "Let's save our work" -> "let's save our work"
      [] OTHER -> t

LowerLine(s) == [i \in DOMAIN s |-> Lower(s[i])]

\* p in s
Contains(s, p) ==
    \E i \in 1..(Len(s) - Len(p) + 1) : SubSeq(s, i, i + Len(p) - 1) = p

\* s.startswith(p)
StartsWith(s, p) == Len(p) <= Len(s) /\ SubSeq(s, 1, Len(p)) = p

\* index of the first / last non-blank token (Len+1 / 0 when all blank)
FirstNonSpace(s) ==
    IF \E i \in 1..Len(s) : ~IsSpace(s[i])
    THEN CHOOSE i \in 1..Len(s) :
             ~IsSpace(s[i]) /\ \A j \in 1..(i - 1) : IsSpace(s[j])
    ELSE Len(s) + 1

LastNonSpace(s) ==
    IF \E i \in 1..Len(s) : ~IsSpace(s[i])
    THEN CHOOSE i \in 1..Len(s) :
             ~IsSpace(s[i]) /\ \A j \in (i + 1)..Len(s) : IsSpace(s[j])
    ELSE 0

\* nothing is stripped
NoStrip(s) == s

\* s.lstrip(), s.strip()
LStrip(s) == SubSeq(s, FirstNonSpace(s), Len(s))
Strip(s) == SubSeq(s, FirstNonSpace(s), LastNonSpace(s))

\* ''.join(lines)
RECURSIVE Join(_)
Join(lines) ==
    IF lines = <<>> THEN <<>> ELSE Head(lines) \o Join(Tail(lines))

\* a run of digits (\d+): one number token
MaxNum == 9
Numbers == {ToString(n) : n \in 0..MaxNum}
IsNumber(t) == t \in Numbers

\* last index of the maximal run of blanks (\s+) starting at i; i-1 if none
RECURSIVE WsRunEnd(_, _)
WsRunEnd(s, i) ==
    IF i <= Len(s) /\ IsSpace(s[i]) THEN WsRunEnd(s, i + 1) ELSE i - 1

\* last index of the maximal run of non-blanks (\S+) starting at i; i-1 if none
RECURSIVE NonWsRunEnd(_, _)
NonWsRunEnd(s, i) ==
    IF i <= Len(s) /\ ~IsSpace(s[i]) THEN NonWsRunEnd(s, i + 1) ELSE i - 1

\* a test for a numbered list item that never matches
NeverNumbered(s) == FALSE

\* re.match(r'^\d+\.', s)
NumberedPrefix(s) == Len(s) >= 2 /\ IsNumber(s[1]) /\ s[2] = "."

----------------------------------------------------------------------------
(* The patterns of the sanitizer *)

JOVIAN == <<"jovian">>
PIP_INSTALL == <<"pip", " ", "install">>
JOVIAN_COMMIT == <<"jovian", ".commit">>
JOVIAN_CLONE == <<"jovian", " ", "clone">>
HELP_JOVIAN == <<"?", "jovian">>
SAVE_YOUR_WORK == <<"save", " ", "your", " ", "work">>
SAVING_YOUR_WORK == <<"saving", " ", "your", " ", "work">>
SAVE_A_SNAPSHOT == <<"save", " ", "a", " ", "snapshot">>
COMMUNITY_FORUM == <<"community", " ", "forum">>
FORUM_C == <<"forum", "/c/">>
ASK_QUESTIONS == <<"ask questions, discuss ideas and get help">>
JOVIAN_COM_FORUM == <<"jovian", ".com/", "forum">>
FORUM == <<"forum">>
COMMUNITY == <<"community">>
IMPORT_JOVIAN == <<"import", " ", "jovian">>
FROM_JOVIAN_IMPORT == <<"from", " ", "jovian", " ", "import">>
SAVE_SENTENCE == <<"Let's save our work", " before continuing">>

----------------------------------------------------------------------------
(* The regular expressions of the install-directive rewrite *)

\* (?:[><=!]=?\S+)? tried at k, the index after "jovian": the last index the
\* group consumes, k-1 when it does not match.  "==" holds the operator and
\* one more character; "!" needs a non-blank character after it.
GroupEnd(s, k) ==
    IF k <= Len(s) /\ s[k] = "==" THEN NonWsRunEnd(s, k)
    ELSE IF k + 1 <= Len(s) /\ s[k] = "!" /\ ~IsSpace(s[k + 1])
         THEN NonWsRunEnd(s, k)
         ELSE k - 1

\* r'\s+jovian(?:[><=!]=?\S+)?(?=\s|$)' matched at i: the index of the last
\* token of the match, 0 when there is none
Match1End(s, i) ==
    LET w == WsRunEnd(s, i)
    IN  IF w < i \/ w + 1 > Len(s) \/ s[w + 1] # "jovian" THEN 0
        ELSE LET g == GroupEnd(s, w + 2)
             IN  IF g + 1 > Len(s) \/ IsSpace(s[g + 1]) THEN g ELSE 0

\* r'jovian(?:[><=!]=?\S+)?\s+' matched at i
Match2End(s, i) ==
    IF s[i] # "jovian" THEN 0
    ELSE LET g == GroupEnd(s, i + 1)
             w == WsRunEnd(s, g + 1)
         IN  IF w > g THEN w ELSE 0

\* re.sub(r'\s+jovian(?:[><=!]=?\S+)?(?=\s|$)', '', s), scanning from i
RECURSIVE Sub1(_, _)
Sub1(s, i) ==
    IF i > Len(s) THEN <<>>
    ELSE LET e == Match1End(s, i)
         IN  IF e >= i THEN Sub1(s, e + 1) ELSE <<s[i]>> \o Sub1(s, i + 1)

\* re.sub(r'jovian(?:[><=!]=?\S+)?\s+', '', s), scanning from i
RECURSIVE Sub2(_, _)
Sub2(s, i) ==
    IF i > Len(s) THEN <<>>
    ELSE LET e == Match2End(s, i)
         IN  IF e >= i THEN Sub2(s, e + 1) ELSE <<s[i]>> \o Sub2(s, i + 1)

\* re.sub(r'\s+', ' ', s), scanning from i
RECURSIVE CollapseWs(_, _)
CollapseWs(s, i) ==
    IF i > Len(s) THEN <<>>
    ELSE IF IsSpace(s[i]) THEN <<" ">> \o CollapseWs(s, WsRunEnd(s, i) + 1)
         ELSE <<s[i]>> \o CollapseWs(s, i + 1)

\* the three substitutions applied to an install line
PipRewrite(line) == CollapseWs(Sub2(Sub1(line, 1), 1), 1)

\* \s+<word> matched at i, ignoring case: the index of the word, 0 if none
WsThenWord(s, i, word) ==
    LET e == WsRunEnd(s, i)
    IN  IF e >= i /\ e + 1 <= Len(s) /\ Lower(s[e + 1]) = word THEN e + 1 ELSE 0

\* r'\s+and\s+Save\s+Your\s+Work' (re.IGNORECASE) matched at i
HeaderMatchEnd(s, i) ==
    LET a == WsThenWord(s, i, "and")
        b == IF a = 0 THEN 0 ELSE WsThenWord(s, a + 1, "save")
        c == IF b = 0 THEN 0 ELSE WsThenWord(s, b + 1, "your")
    IN  IF c = 0 THEN 0 ELSE WsThenWord(s, c + 1, "work")

\* re.sub(r'\s+and\s+Save\s+Your\s+Work', '', s, flags=re.IGNORECASE)
RECURSIVE HeaderSub(_, _)
HeaderSub(s, i) ==
    IF i > Len(s) THEN <<>>
    ELSE LET e == HeaderMatchEnd(s, i)
         IN  IF e >= i THEN HeaderSub(s, e + 1)
             ELSE <<s[i]>> \o HeaderSub(s, i + 1)

\* '--\S+': a token that starts with "--"
IsOption(t) == t \in {"--quiet", "--upgrade"}

\* (?:--\S+\s*)*$ matched at i
RECURSIVE OptionsToEnd(_, _)
OptionsToEnd(s, i) ==
    IF i > Len(s) THEN TRUE
    ELSE IF IsOption(s[i])
         THEN OptionsToEnd(s, WsRunEnd(s, NonWsRunEnd(s, i) + 1) + 1)
         ELSE FALSE

\* re.match(r'^!?\s*pip\s+install\s*(?:--\S+\s*)*$', s)
EmptyPipInstall(s) ==
    LET p0 == IF Len(s) >= 1 /\ s[1] = "!" THEN 2 ELSE 1
        p1 == WsRunEnd(s, p0) + 1
        w == WsRunEnd(s, p1 + 1)
    IN  /\ p1 <= Len(s) /\ s[p1] = "pip"
        /\ w >= p1 + 1
        /\ w + 1 <= Len(s) /\ s[w + 1] = "install"
        /\ OptionsToEnd(s, WsRunEnd(s, w + 2) + 1)

----------------------------------------------------------------------------
(* Cells.  A cell is [cell_type, source]; a source is [isList, lines]: a list *)
(* of line strings (isList) or one string, kept as the single element of     *)
(* lines, which is how both cleaners normalise it:                            *)
(*     lines = cell_source if isinstance(cell_source, list) else [cell_source] *)

ListSource(ls) == [isList |-> TRUE, lines |-> ls]
StrSource(str) == [isList |-> FALSE, lines |-> <<str>>]

\* not cell_source: the empty list or the empty string
Falsy(src) ==
    IF src.isList THEN src.lines = <<>> ELSE src.lines[1] = <<>>

\* ''.join(cell_source) if isinstance(cell_source, list) else cell_source
CellText(src) == Join(src.lines)

----------------------------------------------------------------------------
(* clean_markdown_cell: the line rewrite *)

SavePhrase(line_lower) ==
    \/ Contains(line_lower, SAVING_YOUR_WORK)
    \/ Contains(line_lower, SAVE_YOUR_WORK)
    \/ Contains(line_lower, SAVE_A_SNAPSHOT)

ForumPhrase(line_lower) ==
    \/ Contains(line_lower, COMMUNITY_FORUM)
    \/ Contains(line_lower, FORUM_C)
    \/ Contains(line_lower, ASK_QUESTIONS)
    \/ Contains(line_lower, JOVIAN_COM_FORUM)

\* One iteration of the loop over the lines, in the order of the code.  st is
\* the loop's state: cleaned_lines, skip_until_blank, modified.

\* the last rule puts the line in front of the lines emitted so far
MdLineRulesPrepend(st, line_lower, line, modified, numbered, forum) ==
    IF Contains(line, JOVIAN_COMMIT)
    THEN [cleaned_lines |-> st.cleaned_lines,
          skip_until_blank |->
              st.skip_until_blank \/ numbered \/ SavePhrase(line_lower),
          modified |-> TRUE]
    ELSE IF forum /\ (numbered \/ Contains(line_lower, FORUM))
    THEN [cleaned_lines |-> st.cleaned_lines,
          skip_until_blank |-> st.skip_until_blank \/ numbered,
          modified |-> TRUE]
    ELSE IF st.skip_until_blank
    THEN [cleaned_lines |-> st.cleaned_lines,
          skip_until_blank |-> ~(Strip(line) = <<>>),
          modified |-> modified \/ forum]
    ELSE [cleaned_lines |-> <<line>> \o st.cleaned_lines,
          skip_until_blank |-> FALSE,
          modified |-> modified \/ forum]

\* From the commit rule on: line is the line after the install and header
\* rewrites, modified the flag they left, line_lower the lowered original
\* line, numbered whether line.strip() starts a numbered item, forum whether
\* line_lower holds a forum phrase.
MdLineRules(st, line_lower, line, modified, numbered, forum) ==
    IF Contains(line, JOVIAN_COMMIT)
    THEN [cleaned_lines |-> st.cleaned_lines,
          skip_until_blank |->
              st.skip_until_blank \/ numbered \/ SavePhrase(line_lower),
          modified |-> TRUE]
    ELSE IF forum /\ (numbered \/ Contains(line_lower, FORUM))
    THEN [cleaned_lines |-> st.cleaned_lines,
          skip_until_blank |-> st.skip_until_blank \/ numbered,
          modified |-> TRUE]
    ELSE IF st.skip_until_blank
    THEN [cleaned_lines |-> st.cleaned_lines,
          skip_until_blank |-> ~(Strip(line) = <<>>),
          modified |-> modified \/ forum]
    ELSE [cleaned_lines |-> Append(st.cleaned_lines, line),
          skip_until_blank |-> FALSE,
          modified |-> modified \/ forum]

\* after the header rewrite
MdLineHeaded(st, line_lower, line, modified) ==
    MdLineRules(st, line_lower, line, modified,
                NumberedPrefix(Strip(line)), ForumPhrase(line_lower))

\* the header rewrite, when header says the line is a "save your work" header
MdLineHeader(st, line_lower, line, modified, header) ==
    IF header
    THEN MdLineHeaded(st, line_lower, HeaderSub(line, 1), TRUE)
    ELSE MdLineHeaded(st, line_lower, line, modified)

\* the clone and help rule is left out
MdLineNoClone(st, line_lower, line, modified) ==
    MdLineHeader(st, line_lower, line, modified,
                 StartsWith(line, <<"#">>) /\ Contains(line_lower, SAVE_YOUR_WORK))

\* the clone and help rule, on the line after the install rewrite
MdLineClone(st, line_lower, line, modified) ==
    IF Contains(line, JOVIAN_CLONE) \/ Contains(line, HELP_JOVIAN)
    THEN [cleaned_lines |-> st.cleaned_lines,
          skip_until_blank |-> st.skip_until_blank \/ NumberedPrefix(Strip(line)),
          modified |-> TRUE]
    ELSE MdLineHeader(st, line_lower, line, modified,
                      StartsWith(line, <<"#">>) /\ Contains(line_lower, SAVE_YOUR_WORK))

\* the install rewrite, then the rest
MdLinePip(st, original_line, line) ==
    MdLineClone(st, LowerLine(original_line), line,
                st.modified \/ (line # original_line))

MdLineStep(st, original_line) ==
    IF Contains(original_line, PIP_INSTALL) /\ Contains(original_line, JOVIAN)
    THEN MdLinePip(st, original_line, PipRewrite(original_line))
    ELSE MdLinePip(st, original_line, original_line)

\* for i, line in enumerate(lines): ...
RECURSIVE MdLineLoop(_, _, _)
MdLineLoop(lines, i, st) ==
    IF i > Len(lines) THEN st
    ELSE MdLineLoop(lines, i + 1, MdLineStep(st, lines[i]))

\* One iteration of the loop of clean_notebooks_smart.py, which has the
\* header, commit and forum rules and the skip block, and neither the install
\* rewrite nor the clone rule.
SmartLineStep(st, line) ==
    MdLineHeader(st, LowerLine(line), line, st.modified,
                 StartsWith(line, <<"#">>) /\ Contains(LowerLine(line), SAVE_YOUR_WORK))

RECURSIVE SmartLineLoop(_, _, _)
SmartLineLoop(lines, i, st) ==
    IF i > Len(lines) THEN st
    ELSE SmartLineLoop(lines, i + 1, SmartLineStep(st, lines[i]))

----------------------------------------------------------------------------
(* clean_markdown_cell: the renumbering pass *)

\* re.match(r'^(\d+)\.\s+(.*)$', s): "." does not match a newline and "$"
\* matches at the end or before a final newline, so what follows the blanks
\* holds no newline but a last one.
RenumberRest(s) == SubSeq(s, WsRunEnd(s, 3) + 1, Len(s))

RenumberMatch(s) ==
    /\ Len(s) >= 3 /\ IsNumber(s[1]) /\ s[2] = "." /\ IsSpace(s[3])
    /\ \A k \in 1..(Len(RenumberRest(s)) - 1) : RenumberRest(s)[k] # "\n"

\* match.group(2)
RenumberGroup2(s) ==
    LET rest == RenumberRest(s)
    IN  IF rest # <<>> /\ rest[Len(rest)] = "\n"
        THEN SubSeq(rest, 1, Len(rest) - 1)
        ELSE rest

\* One iteration of the renumbering loop.  st: result, current_num, in_list.
RenumberStep(st, line) ==
    IF RenumberMatch(LStrip(line))
    THEN LET indent == Len(line) - Len(LStrip(line))
         IN  [result |-> Append(st.result,
                                [k \in 1..indent |-> " "]
                                    \o <<ToString(st.current_num), ".", " ">>
                                    \o RenumberGroup2(LStrip(line))),
              current_num |-> st.current_num + 1,
              in_list |-> TRUE]
    ELSE IF st.in_list /\ Strip(line) # <<>> /\ ~StartsWith(Strip(line), <<"-">>)
         THEN [result |-> Append(st.result, line),
               current_num |-> 1,
               in_list |-> FALSE]
         ELSE [result |-> Append(st.result, line),
               current_num |-> st.current_num,
               in_list |-> st.in_list]

RECURSIVE RenumberLoop(_, _, _)
RenumberLoop(lines, i, st) ==
    IF i > Len(lines) THEN st
    ELSE RenumberLoop(lines, i + 1, RenumberStep(st, lines[i]))

\* the renumbering pass left out
NoRenumber(cleaned_text) == cleaned_text

Renumber(cleaned_text) ==
    RenumberLoop(cleaned_text, 1,
                 [result |-> <<>>, current_num |-> 1, in_list |-> FALSE]).result

\* the line rewrite alone: cleaned_lines, skip_until_blank, modified
RewriteLines(lines) ==
    MdLineLoop(lines, 1,
               [cleaned_lines |-> <<>>, skip_until_blank |-> FALSE,
                modified |-> FALSE])

\* the line rewrite of clean_notebooks_smart.py
SmartRewriteLines(lines) ==
    SmartLineLoop(lines, 1,
                  [cleaned_lines |-> <<>>, skip_until_blank |-> FALSE,
                   modified |-> FALSE])

\* if modified: renumber; return cleaned_text, modified
RenumberIfModified(r) ==
    [cleaned_text |->
         IF r.modified THEN ListSource(Renumber(r.cleaned_lines))
         ELSE ListSource(r.cleaned_lines),
     modified |-> r.modified]

\* clean_markdown_cell(cell_source) -> (cleaned_text, modified)
clean_markdown_cell(src) ==
    IF Falsy(src) THEN [cleaned_text |-> src, modified |-> FALSE]
    ELSE RenumberIfModified(RewriteLines(src.lines))

\* clean_markdown_cell of clean_notebooks_smart.py
smart_clean_markdown_cell(src) ==
    IF Falsy(src) THEN [cleaned_text |-> src, modified |-> FALSE]
    ELSE RenumberIfModified(SmartRewriteLines(src.lines))

----------------------------------------------------------------------------
(* clean_code_cell *)

COMMIT_CALL == JOVIAN_COMMIT \o <<"(">>

\* the deleting test with the two exact comparisons only
CommitOrHelpExact(line_stripped) ==
    \/ line_stripped = COMMIT_CALL \o <<")">>
    \/ line_stripped = HELP_JOVIAN \o <<".commit">>

\* the test that deletes the cell, on line.strip()
CommitOrHelpLine(line_stripped) ==
    \/ line_stripped = COMMIT_CALL \o <<")">>
    \/ StartsWith(line_stripped, COMMIT_CALL)
    \/ line_stripped = HELP_JOVIAN \o <<".commit">>
    \/ StartsWith(line_stripped, HELP_JOVIAN)

ImportLine(line_stripped) ==
    \/ line_stripped = IMPORT_JOVIAN
    \/ StartsWith(line_stripped, IMPORT_JOVIAN \o <<" ">>)
    \/ StartsWith(line_stripped, FROM_JOVIAN_IMPORT)

\* a cell is never taken for blank
NeverBlank(lines) == FALSE

AllBlank(lines) == \A k \in 1..Len(lines) : Strip(lines[k]) = <<>>

\* for line in lines: ... ; st: cleaned_lines, modified.  The first commit or
\* help-form line returns (None, True, True) at once.
RECURSIVE CodeLineLoop(_, _, _)
CodeLineLoop(lines, i, st) ==
    IF i > Len(lines)
    THEN [cleaned_lines |-> st.cleaned_lines, modified |-> st.modified,
          should_delete |-> AllBlank(st.cleaned_lines)]
    ELSE LET line == lines[i]
             line_stripped == Strip(line)
             modified_line == PipRewrite(line)
         IN  IF CommitOrHelpLine(line_stripped)
             THEN [cleaned_lines |-> <<>>, modified |-> TRUE, should_delete |-> TRUE]
             ELSE IF ImportLine(line_stripped)
             THEN CodeLineLoop(lines, i + 1,
                      [cleaned_lines |-> st.cleaned_lines, modified |-> TRUE])
             ELSE IF Contains(line, PIP_INSTALL) /\ Contains(line, JOVIAN)
             THEN IF EmptyPipInstall(Strip(modified_line))
                  THEN CodeLineLoop(lines, i + 1,
                           [cleaned_lines |-> st.cleaned_lines, modified |-> TRUE])
                  ELSE CodeLineLoop(lines, i + 1,
                           [cleaned_lines |-> Append(st.cleaned_lines, modified_line),
                            modified |-> st.modified \/ (modified_line # line)])
             ELSE CodeLineLoop(lines, i + 1,
                      [cleaned_lines |-> Append(st.cleaned_lines, line),
                       modified |-> st.modified])

\* clean_code_cell(cell_source) -> (cleaned_lines, modified, should_delete)
clean_code_cell(src) ==
    IF Falsy(src)
    THEN [cleaned_lines |-> src.lines, modified |-> FALSE, should_delete |-> FALSE]
    ELSE CodeLineLoop(src.lines, 1, [cleaned_lines |-> <<>>, modified |-> FALSE])

----------------------------------------------------------------------------
(* clean_notebook (clean_notebooks_complete.py) *)

\* only the sentence with its full stop
SentenceWithStopOnly == {SAVE_SENTENCE \o <<".">>}

SaveWorkSentences == {SAVE_SENTENCE \o <<".">>, SAVE_SENTENCE}

\* the test that sends a markdown cell to clean_markdown_cell
MarkdownEditTrigger(cell_text) ==
    \/ Contains(cell_text, JOVIAN_COMMIT)
    \/ Contains(cell_text, JOVIAN_CLONE)
    \/ Contains(cell_text, HELP_JOVIAN)
    \/ Contains(cell_text, PIP_INSTALL)
    \/ Contains(LowerLine(cell_text), FORUM)
    \/ Contains(LowerLine(cell_text), COMMUNITY)

\* What the loop body decides for one cell: "skip" (empty source), "delete",
\* "edit" (with the new source) or "keep".

\* a code cell is never deleted for what clean_code_cell returned
CodeDecisionNoDelete(src, code) ==
    IF code.modified
    THEN [action |-> "edit", source |-> ListSource(code.cleaned_lines)]
    ELSE [action |-> "keep", source |-> src]

\* a code cell, code being what clean_code_cell returned
CodeDecision(src, code) ==
    IF code.should_delete THEN [action |-> "delete", source |-> src]
    ELSE IF code.modified
         THEN [action |-> "edit", source |-> ListSource(code.cleaned_lines)]
         ELSE [action |-> "keep", source |-> src]

\* a markdown cell sent to clean_markdown_cell, md being what it returned
MarkdownEdit(src, md) ==
    IF md.modified THEN [action |-> "edit", source |-> md.cleaned_text]
    ELSE [action |-> "keep", source |-> src]

\* a markdown cell, cell_text being its flattened text
MarkdownDecision(src, cell_text) ==
    IF Strip(cell_text) \in SaveWorkSentences
    THEN [action |-> "delete", source |-> src]
    ELSE IF MarkdownEditTrigger(cell_text)
         THEN MarkdownEdit(src, clean_markdown_cell(src))
         ELSE [action |-> "keep", source |-> src]

CellDecision(cell) ==
    IF Falsy(cell.source) THEN [action |-> "skip", source |-> cell.source]
    ELSE IF cell.cell_type = "code"
    THEN CodeDecision(cell.source, clean_code_cell(cell.source))
    ELSE IF cell.cell_type = "markdown"
    THEN MarkdownDecision(cell.source, CellText(cell.source))
    ELSE [action |-> "keep", source |-> cell.source]

\* the decision d applied to cell i.  st: cells (edited in place),
\* cells_to_remove, cells_modified.  Indices are 1-based here.
ApplyDecision(st, i, d) ==
    [cells |-> IF d.action = "edit"
               THEN [st.cells EXCEPT ![i].source = d.source]
               ELSE st.cells,
     cells_to_remove |-> IF d.action = "delete"
                         THEN Append(st.cells_to_remove, i)
                         ELSE st.cells_to_remove,
     cells_modified |-> IF d.action = "edit"
                        THEN st.cells_modified + 1
                        ELSE st.cells_modified]

\* for i, cell in enumerate(notebook['cells']): ...
RECURSIVE CellLoop(_, _)
CellLoop(i, st) ==
    IF i > Len(st.cells) THEN st
    ELSE CellLoop(i + 1, ApplyDecision(st, i, CellDecision(st.cells[i])))

\* del cells[i]
DeleteAt(cells, i) ==
    SubSeq(cells, 1, i - 1) \o SubSeq(cells, i + 1, Len(cells))

\* the flagged indices taken in the order they were appended (no reverse sort)
UnsortedOrder(list) == list

\* sorted(cells_to_remove, reverse=True)
RECURSIVE SortedReverse(_)
SortedReverse(list) ==
    IF list = <<>> THEN <<>>
    ELSE LET m == CHOOSE k \in 1..Len(list) :
                      \A j \in 1..Len(list) : list[j] <= list[k]
         IN  <<list[m]>> \o SortedReverse(DeleteAt(list, m))

\* for i in sorted(cells_to_remove, reverse=True): del notebook['cells'][i]
RECURSIVE RemoveCells(_, _)
RemoveCells(cells, order) ==
    IF order = <<>> THEN cells
    ELSE RemoveCells(DeleteAt(cells, Head(order)), Tail(order))

\* after the loop: the deletions, the counts and whether the file is written
RemoveAndSave(st) ==
    [cells |-> RemoveCells(st.cells, SortedReverse(st.cells_to_remove)),
     cells_to_remove |-> st.cells_to_remove,
     cells_modified |-> st.cells_modified,
     written |-> Len(st.cells_to_remove) > 0 \/ st.cells_modified > 0]

\* the whole of clean_notebook on the loaded cells
CleanResult(cells) ==
    RemoveAndSave(CellLoop(1, [cells |-> cells, cells_to_remove |-> <<>>,
                               cells_modified |-> 0]))

----------------------------------------------------------------------------
(* The Colab badge: capture_tag.py and refresh_tag.py *)

A_OPEN == "<a target=\"_blank\" href=\""
COLAB == "colab.research.google.com"
A_CLOSE == "</a>"

\* generate_colab_tag(github_url): one string of three lines
COLAB_TAG ==
    <<A_OPEN, "https://", COLAB, "/github/JovianHQ/notebooks/blob/main/n.ipynb", "\">", "\n",
      " ", " ", "<img src=\"", "https://", COLAB,
      "/assets/colab-badge.svg\" alt=\"Open In Colab\"/>", "\n",
      A_CLOSE>>

\* the element is always put at the end
ListAppend(list, index, x) == Append(list, x)

\* list.insert(index, x), index counted from 0: past the end it appends
ListInsert(list, index, x) ==
    LET p == IF index < Len(list) THEN index ELSE Len(list)
    IN  SubSeq(list, 1, p) \o <<x>> \o SubSeq(list, p + 1, Len(list))

\* a document is written back whatever it holds
WriteBack(cells, tag) == [cells |-> cells, written |-> TRUE, raised |-> FALSE]

\* fix_notebook(path, tag): cells[0] of an empty cell list raises IndexError,
\* str.insert raises AttributeError; both before the file is opened for
\* writing.
FixResult(cells, tag) ==
    IF cells = <<>> \/ ~cells[1].source.isList
    THEN [cells |-> cells, written |-> FALSE, raised |-> TRUE]
    ELSE [cells |->
              [cells EXCEPT ![1].source.lines =
                  ListInsert(ListInsert(ListInsert(@, 2, tag), 3, <<"\n">>),
                             4, <<"\n">>)],
          written |-> TRUE, raised |-> FALSE]

\* the test for the opening anchor line of the badge
AnchorLine(line) == Contains(line, <<A_OPEN>>) /\ Contains(line, <<COLAB>>)

\* no blank line is taken after the closing tag
NoBlankLines(source_lines, k) == <<>>

\* the inner loops of remove_colab_tag, from the anchor line i: the indices
\* appended to lines_to_remove, through the first line that holds the closing
\* tag and the blank lines right after it, or through the last line when no
\* line holds the closing tag
RECURSIVE BlankLinesFrom(_, _)
BlankLinesFrom(source_lines, k) ==
    IF k <= Len(source_lines) /\ Strip(source_lines[k]) = <<>>
    THEN <<k>> \o BlankLinesFrom(source_lines, k + 1)
    ELSE <<>>

RECURSIVE LinesToRemove(_, _)
LinesToRemove(source_lines, j) ==
    IF j > Len(source_lines) THEN <<>>
    ELSE IF Contains(source_lines[j], <<A_CLOSE>>)
         THEN <<j>> \o BlankLinesFrom(source_lines, j + 1)
         ELSE <<j>> \o LinesToRemove(source_lines, j + 1)

\* for idx in sorted(lines_to_remove, reverse=True): source_lines.pop(idx)
RECURSIVE PopAll(_, _)
PopAll(source_lines, order) ==
    IF order = <<>> THEN source_lines
    ELSE PopAll(SubSeq(source_lines, 1, Head(order) - 1)
                    \o SubSeq(source_lines, Head(order) + 1, Len(source_lines)),
                Tail(order))

\* sorted(lines_to_remove, reverse=True): the list was appended in ascending
\* order
RECURSIVE Reversed(_)
Reversed(list) ==
    IF list = <<>> THEN <<>> ELSE Append(Reversed(Tail(list)), Head(list))

\* remove_colab_tag(path).  Iterating a single-string source yields its
\* characters, none of which holds the anchor.
RemoveResult(cells) ==
    IF cells = <<>>
    THEN [cells |-> cells, written |-> FALSE, raised |-> TRUE]
    ELSE LET source_lines == cells[1].source.lines
             found == cells[1].source.isList
                          /\ \E i \in 1..Len(source_lines) : AnchorLine(source_lines[i])
             first == CHOOSE i \in 1..Len(source_lines) :
                          /\ AnchorLine(source_lines[i])
                          /\ \A k \in 1..(i - 1) : ~AnchorLine(source_lines[k])
         IN  IF found
             THEN [cells |->
                       [cells EXCEPT ![1].source.lines =
                           PopAll(@, Reversed(LinesToRemove(source_lines, first)))],
                   written |-> TRUE, raised |-> FALSE]
             ELSE [cells |-> cells, written |-> FALSE, raised |-> FALSE]

\* refresh_tag.main: remove_colab_tag, then capture_tag.py as a subprocess,
\* which regenerates the tag and calls fix_notebook; a failed subprocess
\* raises RuntimeError
RefreshResult(cells) ==
    LET removed == RemoveResult(cells)
        fixed == FixResult(removed.cells, COLAB_TAG)
    IN  IF removed.raised THEN removed
        ELSE [cells |-> fixed.cells,
              written |-> removed.written \/ fixed.written,
              raised |-> fixed.raised]

\* refresh_tag.main when the capture_tag.py subprocess ends with a return
\* code other than 0 before fix_notebook has written: what remove_colab_tag
\* wrote stays, and main raises RuntimeError
RefreshChildFailed(cells) ==
    LET removed == RemoveResult(cells)
    IN  IF removed.raised THEN removed
        ELSE [cells |-> removed.cells,
              written |-> removed.written,
              raised |-> TRUE]

----------------------------------------------------------------------------
(* The documents the sanitizer is run on *)

MaxLines == 3
MaxListLines == 5
MaxCells == 3
MaxRuns == 2
MaxTagLines == 3
MaxTagRuns == 2
MaxPipArgs == 3
MaxRetries == 4
MaxBatch == 3
MaxDirs == 2
MaxRuleLines == 3
MaxRuleRuns == 1
MaxNestLines == 4
MaxFrameLines == 3
MaxOrderLines == 3
MaxTokenLen == 9

\* mask_token's default for visible
VISIBLE == 4

\* lines of markdown cells
MdLines ==
    {<<"\n">>,
     <<"text", "\n">>,
     <<"3", ".", " ", "item", "\n">>,
     <<"2", ".", " ", "Run", " ", "jovian", ".commit", "\n">>,
     <<"jovian", ".commit", "(", ")", "\n">>,
     <<"Let's save our work", " before continuing", ".">>,
     <<"Ask questions, discuss ideas and get help", "\n">>,
     <<"#", " ", "Summary", " ", "and", " ", "Save", " ", "Your", " ", "Work", "\n">>,
     <<"pip", " ", "install", " ", "jovian", " ", "pandas", "==", "2.0", "\n">>,
     <<"-", " ", "Forum", ":", " ", "jovian", ".com/", "forum", "\n">>,
     <<"1", ".", " ", "jovian", " ", "clone", "\n">>,
     <<"Save", " ", "your", " ", "work", " ", "with", " ", "jovian", ".commit", "\n">>}

\* lines of code cells
CodeLines ==
    {<<"jovian", ".commit", "(", ")", "\n">>,
     <<" ", "jovian", ".commit", "(", "project", ")", "\n">>,
     <<"?", "jovian", ".commit", "\n">>,
     <<"import", " ", "jovian", "\n">>,
     <<"from", " ", "jovian", " ", "import", " ", "commit", "\n">>,
     <<"!", "pip", " ", "install", " ", "jovian", " ", "--upgrade", " ", "--quiet", "\n">>,
     <<"!", "pip", " ", "install", " ", "jovian", " ", "pandas", "==", "2.0", "\n">>,
     <<"print", "(", ")", "\n">>,
     <<"\n">>,
     <<"#", " ", "jovian", ".commit", "(", ")", "\n">>}

\* lines of a markdown cell that holds numbered lists: a blank line, an
\* indented continuation line, an item, an item that names the commit action,
\* a dash bullet
ListLines ==
    {<<"\n">>,
     <<" ", " ", "more", "\n">>,
     <<"3", ".", " ", "item", "\n">>,
     <<"2", ".", " ", "Run", " ", "jovian", ".commit", "\n">>,
     <<"-", " ", "note", "\n">>}

\* lines of a markdown cell for the removal rules: a blank line, a text line,
\* the commit action in an item, alone, and with each of the three save
\* phrases; a clone line that also names the commit action with a save
\* phrase, a clone item; a forum link, a forum item, and the forum phrase
\* that does not hold "forum", alone and with the commit action
RuleLines ==
    {<<"\n">>,
     <<"text", "\n">>,
     <<"2", ".", " ", "Run", " ", "jovian", ".commit", "\n">>,
     <<"Run", " ", "jovian", ".commit", "\n">>,
     <<"saving", " ", "your", " ", "work", " ", "with", " ", "jovian", ".commit", "\n">>,
     <<"Save", " ", "your", " ", "work", " ", "with", " ", "jovian", ".commit", "\n">>,
     <<"save", " ", "a", " ", "snapshot", " ", "with", " ", "jovian", ".commit", "\n">>,
     <<"jovian", " ", "clone", " ", "then", " ", "save", " ", "a", " ",
       "snapshot", " ", "with", " ", "jovian", ".commit", "\n">>,
     <<"1", ".", " ", "jovian", " ", "clone", "\n">>,
     <<"-", " ", "Forum", ":", " ", "jovian", ".com/", "forum", "\n">>,
     <<"3", ".", " ", "community", " ", "forum", "\n">>,
     <<"Ask questions, discuss ideas and get help", "\n">>,
     <<"Ask questions, discuss ideas and get help", " ", "with", " ",
       "jovian", ".commit", "\n">>}

\* lines of a markdown cell that holds nested numbered lists: a blank line, a
\* text line, an item, an indented item, a dash bullet, and a line with a
\* forum phrase that the rewrite keeps while it marks the cell as modified
NestLines ==
    {<<"\n">>,
     <<"text", "\n">>,
     <<"3", ".", " ", "item", "\n">>,
     <<" ", " ", "3", ".", " ", "sub", "\n">>,
     <<"-", " ", "note", "\n">>,
     <<"Ask questions, discuss ideas and get help", " ", "in", " ", "the",
       " ", "community", "\n">>}

\* single-string sources
Strings ==
    {<<>>,
     <<"jovian", ".commit", "(", ")">>,
     <<"print", "(", ")", "\n", "jovian", ".commit", "(", ")">>,
     <<"Let's save our work", " before continuing">>,
     <<"text", "\n", "2", ".", " ", "Run", " ", "jovian", ".commit", "\n">>,
     <<"import", " ", "jovian", "\n", "print", "(", ")">>}


\* every sequence of at most n elements of S
SeqsUpTo(S, n) == UNION {[1..k -> S] : k \in 0..n}

Cell(type, src) == [cell_type |-> type, source |-> src]

\* one-cell documents: every list source of at most MaxLines lines, and the
\* single-string sources
OneCellDocs ==
    {<<Cell("markdown", ListSource(ls))>> : ls \in SeqsUpTo(MdLines, MaxLines)}
        \cup {<<Cell("code", ListSource(ls))>> : ls \in SeqsUpTo(CodeLines, MaxLines)}
        \cup {<<Cell(t, StrSource(str))>> : t \in {"markdown", "code"}, str \in Strings}

\* cells of the documents of several cells: deleted, edited and kept ones
CellPool ==
    {Cell("code", ListSource(<<<<"jovian", ".commit", "(", ")", "\n">>>>)),
     Cell("code", ListSource(<<<<"print", "(", ")", "\n">>>>)),
     Cell("code", ListSource(<<<<"import", " ", "jovian", "\n">>,
                               <<"print", "(", ")", "\n">>>>)),
     Cell("markdown", ListSource(<<<<"Let's save our work", " before continuing", ".">>>>)),
     Cell("markdown", ListSource(<<<<"text", "\n">>>>)),
     Cell("markdown", ListSource(<<<<"3", ".", " ", "item", "\n">>,
                                   <<"2", ".", " ", "Run", " ", "jovian", ".commit", "\n">>,
                                   <<"3", ".", " ", "item", "\n">>>>)),
     Cell("code", ListSource(<<<<"\n">>>>)),
     Cell("raw", ListSource(<<<<"jovian", ".commit", "(", ")", "\n">>>>))}

ManyCellDocs == {d \in SeqsUpTo(CellPool, MaxCells) : Len(d) # 1}

Docs == OneCellDocs \cup ManyCellDocs

\* documents of one markdown cell that holds numbered lists
ListDocs ==
    {<<Cell("markdown", ListSource(ls))>> : ls \in SeqsUpTo(ListLines, MaxListLines)}

\* documents of one markdown cell for the removal rules
RuleDocs ==
    {<<Cell("markdown", ListSource(ls))>> : ls \in SeqsUpTo(RuleLines, MaxRuleLines)}

\* documents of one markdown cell that holds nested numbered lists
NestDocs ==
    {<<Cell("markdown", ListSource(ls))>> : ls \in SeqsUpTo(NestLines, MaxNestLines)}

\* lines of a code cell with no commit or help-form line: imports of the
\* removed dependency and of another module, install lines naming the
\* dependency alone, with long options, with a short option and with another
\* package, a statement and a blank line
FrameLines ==
    {<<"import", " ", "jovian", "\n">>,
     <<"import", " ", "jovian", " ", "as", " ", "jv", "\n">>,
     <<" ", "from", " ", "jovian", " ", "import", " ", "commit", "\n">>,
     <<"import", " ", "os", "\n">>,
     <<"!", "pip", " ", "install", " ", "jovian", " ", "--upgrade", " ", "--quiet", "\n">>,
     <<"!", "pip", " ", "install", " ", "jovian", " ", "-q", "\n">>,
     <<"!", "pip", " ", "install", " ", "jovian", " ", "pandas", "\n">>,
     <<"print", "(", ")", "\n">>,
     <<"\n">>}

\* documents of one code cell with no commit or help-form line
FrameDocs ==
    {<<Cell("code", ListSource(ls))>> : ls \in SeqsUpTo(FrameLines, MaxFrameLines)}

\* lines of a markdown cell for the order of the steps: a blank line, a text
\* line, a numbered and a plain line that name the commit action, a header
\* with the conjunction phrase, a header in which the phrase stands between
\* the two words of the clone command, a numbered clone line, a numbered
\* forum line and an install line
OrderLines ==
    {<<"\n">>,
     <<"text", "\n">>,
     <<"2", ".", " ", "Run", " ", "jovian", ".commit", "\n">>,
     <<"Run", " ", "jovian", ".commit", "\n">>,
     <<"#", " ", "Summary", " ", "and", " ", "Save", " ", "Your", " ", "Work", "\n">>,
     <<"#", " ", "jovian", " ", "and", " ", "Save", " ", "Your", " ", "Work", " ", "clone", "\n">>,
     <<"1", ".", " ", "jovian", " ", "clone", "\n">>,
     <<"3", ".", " ", "community", " ", "forum", "\n">>,
     <<"pip", " ", "install", " ", "jovian", " ", "pandas", "\n">>}

\* documents of one markdown cell for the order of the steps
OrderDocs ==
    {<<Cell("markdown", ListSource(ls))>> : ls \in SeqsUpTo(OrderLines, MaxOrderLines)}

\* lines of a first cell: a blank line, a text line, the badge as
\* fix_notebook inserts it (one string), and the badge's three lines as an
\* editor saves them (one string each)
TagLines ==
    {<<"\n">>,
     <<"text", "\n">>,
     COLAB_TAG,
     <<A_OPEN, "https://", COLAB, "/github/JovianHQ/notebooks/blob/main/n.ipynb", "\">", "\n">>,
     <<" ", " ", "<img src=\"", "https://", COLAB,
       "/assets/colab-badge.svg\" alt=\"Open In Colab\"/>", "\n">>,
     <<A_CLOSE, "\n">>}

\* documents for the badge tools: a first cell of at most MaxTagLines lines,
\* alone or before a code cell; a first cell with a single-string source; a
\* document with no cell
TagDocs ==
    {<<Cell("markdown", ListSource(ls))>> \o rest :
         ls \in SeqsUpTo(TagLines, MaxTagLines),
         rest \in {<<>>, <<Cell("code", ListSource(<<<<"print", "(", ")", "\n">>>>))>>}}
        \cup {<<Cell("markdown", StrSource(<<"text", "\n">>))>>, <<>>}

\* arguments of an install command: the removed dependency, bare and with a
\* version specifier, another package, bare and pinned, and an option
PipArgs ==
    {<<"jovian">>,
     <<"jovian", "==", "1.0">>,
     <<"jovian", "~=", "1.0">>,
     <<"pandas">>,
     <<"pandas", "==", "2.0">>,
     <<"--quiet">>}

\* the arguments, each after the separator sep
RECURSIVE PipArgText(_, _)
PipArgText(args, sep) ==
    IF args = <<>> THEN <<>>
    ELSE sep \o Head(args) \o PipArgText(Tail(args), sep)

\* install lines: with or without the shell mark, at most MaxPipArgs
\* arguments separated by one or two spaces, with or without a line end
PipLines ==
    {prefix \o <<"pip", " ", "install">> \o PipArgText(args, sep) \o ending :
         prefix \in {<<>>, <<"!">>},
         args \in SeqsUpTo(PipArgs, MaxPipArgs),
         sep \in {<<" ">>, <<" ", " ">>},
         ending \in {<<>>, <<"\n">>}}

\* documents of one cell, code or markdown, with an install line before a
\* plain line
PipDocs ==
    {<<Cell(t, ListSource(<<line, <<"x", "\n">>>>))>> :
         t \in {"code", "markdown"}, line \in PipLines}

----------------------------------------------------------------------------
(* The state machine *)

\* no download script has been started
NoCredential == [name |-> "none", environ |-> [set |-> FALSE, value |-> <<>>],
                 files |-> <<>>, state |-> "none", token |-> <<>>,
                 exit_status |-> -1, requests |-> 0,
                 verbose |-> FALSE, log |-> <<>>]

\* no script is running
NoCommand == [name |-> "none", documents |-> <<>>, index |-> 0,
              exit_status |-> -1]

\* no fetch is under way
NoFetch == [fn |-> "none", retries |-> 0, attempt |-> 0, state |-> "none",
            outcomes |-> <<>>, slept |-> <<>>]

InitOn(docs) ==
    /\ notebook \in docs
    /\ history = <<>>
    /\ cells_to_remove = <<>>
    /\ cells_modified = 0
    /\ written = FALSE
    /\ raised = FALSE
    /\ fetch = NoFetch
    /\ command = NoCommand
    /\ credential = NoCredential

Init == InitOn(Docs)

\* python clean_notebooks_complete.py: clean_notebook on the document
CleanNotebook ==
    /\ runs < MaxRuns
    /\ \E r \in {CleanResult(notebook)} :
           /\ notebook' = r.cells
           /\ cells_to_remove' = r.cells_to_remove
           /\ cells_modified' = r.cells_modified
           /\ written' = r.written
    /\ history' = Append(history, [op |-> "clean", before |-> notebook])
    /\ raised' = FALSE
    /\ UNCHANGED <<fetch, command, credential>>

Next == CleanNotebook

Spec == Init /\ [][Next]_vars

\* python capture_tag.py <url>: fix_notebook with the generated tag
FixNotebook ==
    /\ runs < MaxTagRuns
    /\ \E r \in {FixResult(notebook, COLAB_TAG)} :
           notebook' = r.cells /\ written' = r.written /\ raised' = r.raised
    /\ history' = Append(history, [op |-> "fix", before |-> notebook])
    /\ UNCHANGED <<cells_to_remove, cells_modified, fetch, command,
                   credential>>

\* remove_colab_tag on the document
RemoveColabTag ==
    /\ runs < MaxTagRuns
    /\ \E r \in {RemoveResult(notebook)} :
           notebook' = r.cells /\ written' = r.written /\ raised' = r.raised
    /\ history' = Append(history, [op |-> "remove", before |-> notebook])
    /\ UNCHANGED <<cells_to_remove, cells_modified, fetch, command,
                   credential>>

\* python refresh_tag.py <url>
Refresh ==
    /\ runs < MaxTagRuns
    /\ \E r \in {RefreshResult(notebook)} :
           notebook' = r.cells /\ written' = r.written /\ raised' = r.raised
    /\ history' = Append(history, [op |-> "refresh", before |-> notebook])
    /\ UNCHANGED <<cells_to_remove, cells_modified, fetch, command,
                   credential>>

\* python refresh_tag.py <url> with a capture_tag.py subprocess that fails
\* on its own (the interpreter does not start, the file cannot be read or
\* written, the process is stopped)
RefreshFailing ==
    /\ runs < MaxTagRuns
    /\ \E r \in {RefreshChildFailed(notebook)} :
           notebook' = r.cells /\ written' = r.written /\ raised' = r.raised
    /\ history' = Append(history, [op |-> "refresh failing",
                                   before |-> notebook])
    /\ UNCHANGED <<cells_to_remove, cells_modified, fetch, command,
                   credential>>

\* the badge tools on their documents
InitTag == InitOn(TagDocs)

NextTag == FixNotebook \/ RemoveColabTag \/ Refresh \/ RefreshFailing

SpecTag == InitTag /\ [][NextTag]_vars

\* the sanitizer on the documents that hold numbered lists
InitList == InitOn(ListDocs)

SpecList == InitList /\ [][Next]_vars

\* the sanitizer, run at most MaxRuleRuns times, on the documents for the
\* removal rules
InitRule == InitOn(RuleDocs)

CleanRuleNotebook == runs < MaxRuleRuns /\ CleanNotebook

SpecRule == InitRule /\ [][CleanRuleNotebook]_vars

\* the sanitizer, run once, on the documents that hold nested lists
InitNest == InitOn(NestDocs)

SpecNest == InitNest /\ [][CleanRuleNotebook]_vars

\* the sanitizer, run once, on the code cells with no commit or help-form line
InitFrame == InitOn(FrameDocs)

SpecFrame == InitFrame /\ [][CleanRuleNotebook]_vars

\* the sanitizer, run once, on the documents for the order of the steps
InitOrder == InitOn(OrderDocs)

SpecOrder == InitOrder /\ [][CleanRuleNotebook]_vars

\* the sanitizer on the documents that hold install lines
InitPip == InitOn(PipDocs)

SpecPip == InitPip /\ [][Next]_vars

----------------------------------------------------------------------------
(* The network fetches: fetch_notebook_metadata and download_file of       *)
(* download-notebook.py, fetch_html of download-lesson.py.  The three have  *)
(* the same loop.  urlopen and response.read() end in one of four ways: the *)
(* body is read ("ok"); HTTPError, the server answered with an error        *)
(* status; URLError, the connection could not be made (refused, no route,   *)
(* name not resolved, timed out while connecting); or an exception that is  *)
(* neither, written "OSError": the connection was lost or timed out after   *)
(* the request went out (RemoteDisconnected, TimeoutError, IncompleteRead). *)

FetchFunctions == {"fetch_notebook_metadata", "download_file", "fetch_html"}

InitFetch ==
    /\ notebook = <<>>
    /\ history = <<>>
    /\ cells_to_remove = <<>>
    /\ cells_modified = 0
    /\ written = FALSE
    /\ raised = FALSE
    /\ command = NoCommand
    /\ credential = NoCredential
    /\ \E fn \in FetchFunctions, retries \in 0..MaxRetries :
           fetch = [fn |-> fn, retries |-> retries, attempt |-> 0,
                    state |-> "try", outcomes |-> <<>>, slept |-> <<>>]

\* a wait that grows by one second with each attempt
LinearWait(attempt) == attempt

\* wait_seconds = 2 ** (attempt - 1)
wait_seconds(attempt) == 2 ^ (attempt - 1)

\* attempt += 1; urlopen(...) and response.read() ending in outcome, which
\* takes the call to state
Attempt(outcome, state) ==
    [fetch EXCEPT !.attempt = @ + 1,
                  !.outcomes = Append(@, outcome),
                  !.state = state]

\* the destination is written at every attempt
WritesAtEveryAttempt(fn, outcome) == fn = "download_file"

\* destination.write_bytes(content): only download_file has it, after the
\* loop, which only the break of a read response leaves
WritesDestination(fn, outcome) == fn = "download_file" /\ outcome = "ok"

\* the body is read: break / return
ReadResponse ==
    /\ fetch.state = "try"
    /\ fetch' = Attempt("ok", "returned")
    /\ written' = (written \/ WritesDestination(fetch.fn, "ok"))
    /\ UNCHANGED <<notebook, history, cells_to_remove, cells_modified,
                   raised, command, credential>>

\* except HTTPError: raise RuntimeError
RaiseHTTPError ==
    /\ fetch.state = "try"
    /\ fetch' = Attempt("HTTPError", "RuntimeError")
    /\ written' = (written \/ WritesDestination(fetch.fn, "HTTPError"))
    /\ UNCHANGED <<notebook, history, cells_to_remove, cells_modified,
                   raised, command, credential>>

\* except URLError: raise RuntimeError if attempt >= retries, else compute
\* wait_seconds and go to sleep
RaiseURLError ==
    /\ fetch.state = "try"
    /\ fetch' = IF fetch.attempt + 1 >= fetch.retries
                THEN Attempt("URLError", "RuntimeError")
                ELSE [Attempt("URLError", "sleep") EXCEPT
                          !.slept = Append(@, wait_seconds(fetch.attempt + 1))]
    /\ written' = (written \/ WritesDestination(fetch.fn, "URLError"))
    /\ UNCHANGED <<notebook, history, cells_to_remove, cells_modified,
                   raised, command, credential>>

\* an exception no except clause names leaves the function as it is
RaiseOther ==
    /\ fetch.state = "try"
    /\ fetch' = Attempt("OSError", "OSError")
    /\ written' = (written \/ WritesDestination(fetch.fn, "OSError"))
    /\ UNCHANGED <<notebook, history, cells_to_remove, cells_modified,
                   raised, command, credential>>

\* time.sleep(wait_seconds) returns and the loop goes round
Sleep ==
    /\ fetch.state = "sleep"
    /\ fetch' = [fetch EXCEPT !.state = "try"]
    /\ UNCHANGED <<notebook, history, cells_to_remove, cells_modified,
                   written, raised, command, credential>>

NextFetch ==
    ReadResponse \/ RaiseHTTPError \/ RaiseURLError \/ RaiseOther \/ Sleep

SpecFetch == InitFetch /\ [][NextFetch]_vars

----------------------------------------------------------------------------
(* The command surfaces: the main() of each script.  A run goes through its *)
(* documents in order; what happens to a document is "ok", "missing" (the   *)
(* local file is not there) or "failed" (any other failure that ends the    *)
(* document's processing: a malformed URL, a missing credential, a fetch    *)
(* that raised, a sub-command with a non-zero return code, an exception).   *)

\* the scripts that take one document and those that loop over several
SingleCommands == {"download-notebook", "capture_tag", "refresh_tag"}
BatchCommands ==
    {"download-lesson", "recursive_refresh", "clean_notebooks",
     "clean_notebooks_smart", "clean_notebooks_complete"}

\* what can happen to a document of the script
DocumentOutcomes(name) ==
    IF name \in {"capture_tag", "refresh_tag", "clean_notebooks",
                 "clean_notebooks_smart"}
    THEN {"ok", "missing", "failed"}
    ELSE {"ok", "failed"}

\* the script prints a message and goes on to the next document:
\* recursive_refresh after a refresh_tag.py that returned non-zero,
\* clean_notebooks and clean_notebooks_smart after a notebook that is not
\* there
GoesOn(name, outcome) ==
    \/ name = "recursive_refresh" /\ outcome = "failed"
    \/ name \in {"clean_notebooks", "clean_notebooks_smart"}
           /\ outcome = "missing"

\* the script exits with status 1 when it finds no document
ExitsWithoutDocuments(name) ==
    name \in {"download-lesson", "clean_notebooks_complete"}

InitCommand ==
    /\ notebook = <<>>
    /\ history = <<>>
    /\ cells_to_remove = <<>>
    /\ cells_modified = 0
    /\ written = FALSE
    /\ raised = FALSE
    /\ fetch = NoFetch
    /\ credential = NoCredential
    /\ \E name \in SingleCommands \cup BatchCommands :
           \E documents \in
                  IF name \in SingleCommands
                  THEN {<<o>> : o \in DocumentOutcomes(name)}
                  ELSE SeqsUpTo(DocumentOutcomes(name), MaxBatch) :
               command = [name |-> name, documents |-> documents,
                          index |-> 1, exit_status |-> -1]

Running == command.exit_status = -1

\* the document is processed and the run goes on
ProcessDocument ==
    /\ Running /\ command.index <= Len(command.documents)
    /\ command.documents[command.index] = "ok"
    /\ command' = [command EXCEPT !.index = @ + 1]
    /\ UNCHANGED <<notebook, history, cells_to_remove, cells_modified,
                   written, raised, fetch, credential>>

\* the document fails, the script prints a message and goes on
SkipDocument ==
    /\ Running /\ command.index <= Len(command.documents)
    /\ command.documents[command.index] # "ok"
    /\ GoesOn(command.name, command.documents[command.index])
    /\ command' = [command EXCEPT !.index = @ + 1]
    /\ UNCHANGED <<notebook, history, cells_to_remove, cells_modified,
                   written, raised, fetch, credential>>

\* the document fails and the script ends: SystemExit(1), or an exception
\* that leaves main
FailOnDocument ==
    /\ Running /\ command.index <= Len(command.documents)
    /\ command.documents[command.index] # "ok"
    /\ ~GoesOn(command.name, command.documents[command.index])
    /\ command' = [command EXCEPT !.exit_status = 1]
    /\ UNCHANGED <<notebook, history, cells_to_remove, cells_modified,
                   written, raised, fetch, credential>>

\* no document found: sys.exit(1) / SystemExit(1)
ExitNoDocuments ==
    /\ Running /\ command.documents = <<>>
    /\ ExitsWithoutDocuments(command.name)
    /\ command' = [command EXCEPT !.exit_status = 1]
    /\ UNCHANGED <<notebook, history, cells_to_remove, cells_modified,
                   written, raised, fetch, credential>>

\* main returns after the last document: exit status 0
ReturnFromMain ==
    /\ Running /\ command.index > Len(command.documents)
    /\ ~(command.documents = <<>> /\ ExitsWithoutDocuments(command.name))
    /\ command' = [command EXCEPT !.exit_status = 0]
    /\ UNCHANGED <<notebook, history, cells_to_remove, cells_modified,
                   written, raised, fetch, credential>>

NextCommand ==
    \/ ProcessDocument \/ SkipDocument \/ FailOnDocument
    \/ ExitNoDocuments \/ ReturnFromMain

SpecCommand == InitCommand /\ [][NextCommand]_vars

----------------------------------------------------------------------------
(* The credential: load_env_file and resolve_env_token of                   *)
(* download-notebook.py and download-lesson.py, and the start of their      *)
(* main() up to the first network request.  A .env file is a sequence of    *)
(* lines, a line a sequence of tokens; a directory without a .env file has  *)
(* the file NoFile.                                                         *)

AUTH_TOKEN == <<"AUTH_TOKEN">>
NoFile == [exists |-> FALSE, lines |-> <<>>]
EnvFile(lines) == [exists |-> TRUE, lines |-> lines]

\* s.strip(ch) for one character ch
StripChar(s, ch) ==
    IF \A i \in 1..Len(s) : s[i] = ch THEN <<>>
    ELSE SubSeq(s,
                CHOOSE i \in 1..Len(s) :
                    s[i] # ch /\ \A j \in 1..(i - 1) : s[j] = ch,
                CHOOSE i \in 1..Len(s) :
                    s[i] # ch /\ \A j \in (i + 1)..Len(s) : s[j] = ch)

\* the index of the first "=" of a line that holds one
FirstEquals(line) ==
    CHOOSE i \in 1..Len(line) :
        line[i] = "=" /\ \A j \in 1..(i - 1) : line[j] # "="

\* a stripped line that load_env_file skips: empty, a comment, or without "="
SkippedLine(line) ==
    \/ line = <<>>
    \/ StartsWith(line, <<"#">>)
    \/ \A i \in 1..Len(line) : line[i] # "="

\* key, value = line.split("=", maxsplit=1), stripped as the code strips them
LineKey(line) == Strip(SubSeq(line, 1, FirstEquals(line) - 1))
LineValue(line) ==
    StripChar(StripChar(Strip(SubSeq(line, FirstEquals(line) + 1, Len(line))),
                        "\""),
              "'")

\* the lines of the file that assign to key, in order
RECURSIVE Assignments(_, _)
Assignments(lines, key) ==
    IF lines = <<>> THEN <<>>
    ELSE IF ~SkippedLine(Strip(Head(lines)))
              /\ LineKey(Strip(Head(lines))) = key
         THEN <<LineValue(Strip(Head(lines)))>> \o Assignments(Tail(lines), key)
         ELSE Assignments(Tail(lines), key)

\* the last element of a non-empty sequence of values, as a looked-up value
LastValue(values) ==
    IF values = <<>> THEN [set |-> FALSE, value |-> <<>>]
    ELSE [set |-> TRUE, value |-> values[Len(values)]]

\* load_env_file(env_path).get(key): a later assignment replaces an earlier
\* one; a missing file gives the empty dict
load_env_file(file, key) ==
    IF ~file.exists THEN [set |-> FALSE, value |-> <<>>]
    ELSE LastValue(Assignments(file.lines, key))

\* an empty string counts as a token
IsSet(looked_up) == looked_up.set

\* `if token:` for what os.getenv or dict.get returned
Truthy(looked_up) == looked_up.set /\ looked_up.value # <<>>

\* the loop over [current, *current.parents] from directory i on
RECURSIVE SearchUpward(_, _, _)
SearchUpward(files, i, key) ==
    IF i > Len(files) THEN [raised |-> TRUE, token |-> <<>>]
    ELSE IF Truthy(load_env_file(files[i], key))
         THEN [raised |-> FALSE, token |-> load_env_file(files[i], key).value]
         ELSE SearchUpward(files, i + 1, key)

\* resolve_env_token(env_var), environ being os.getenv(env_var)
resolve_env_token(environ, files, key) ==
    IF Truthy(environ) THEN [raised |-> FALSE, token |-> environ.value]
    ELSE SearchUpward(files, 1, key)

\* the characters of a token
TokenChars == {"a", "b"}

\* mask_token(token, visible): "" for an empty token, the first and the last
\* character around "***" for a token of at most 2 * visible characters, the
\* first and the last visible characters around "..." for a longer one
mask_token(token, visible) ==
    IF token = <<>> THEN <<>>
    ELSE IF Len(token) <= visible * 2
    THEN <<token[1], "***", token[Len(token)]>>
    ELSE SubSeq(token, 1, visible) \o <<"...">>
             \o SubSeq(token, Len(token) - visible + 1, Len(token))

\* LOGGER.debug gives a record only with --verbose (level DEBUG)
DebugRecords(verbose, records) == IF verbose THEN records ELSE <<>>

\* the record of resolve_env_token for the token it found; value is what is
\* logged of the token
FoundRecords(token) ==
    <<[record |-> "found", value |-> mask_token(token, VISIBLE)]>>

\* the records of the first request: fetch_notebook_metadata logs the
\* sanitized headers and the cURL command, fetch_html the sanitized headers
RequestRecords(name, token) ==
    IF name = "download-notebook"
    THEN <<[record |-> "request headers", value |-> mask_token(token, VISIBLE)],
           [record |-> "curl command", value |-> token]>>
    ELSE <<[record |-> "request headers", value |-> mask_token(token, VISIBLE)]>>

\* the values os.getenv can return
Environs ==
    {[set |-> FALSE, value |-> <<>>],
     [set |-> TRUE, value |-> <<>>],
     [set |-> TRUE, value |-> <<"tok-env">>]}

\* the .env files a directory can hold
EnvFiles ==
    {NoFile,
     EnvFile(<<>>),
     EnvFile(<<<<"AUTH_TOKEN", "=", "tok-1">>>>),
     EnvFile(<<<<"AUTH_TOKEN", "=", "tok-2">>>>),
     EnvFile(<<<<"AUTH_TOKEN", "=">>>>),
     EnvFile(<<<<"AUTH_TOKEN", "=", "\"", "\"">>>>),
     EnvFile(<<<<" ", "AUTH_TOKEN", " ", "=", " ", "'", "tok-1", "'", " ">>>>),
     EnvFile(<<<<"#", "AUTH_TOKEN", "=", "tok-1">>>>),
     EnvFile(<<<<"AUTH_TOKEN">>>>),
     EnvFile(<<<<"OTHER", "=", "tok-1">>, <<"AUTH_TOKEN", "=", "tok-2">>>>),
     EnvFile(<<<<"AUTH_TOKEN", "=", "tok-1">>, <<"AUTH_TOKEN", "=", "tok-2">>>>),
     EnvFile(<<<<"AUTH_TOKEN", "=", "tok-1">>, <<"AUTH_TOKEN", "=">>>>)}

InitCredential ==
    /\ notebook = <<>>
    /\ history = <<>>
    /\ cells_to_remove = <<>>
    /\ cells_modified = 0
    /\ written = FALSE
    /\ raised = FALSE
    /\ fetch = NoFetch
    /\ command = NoCommand
    /\ \E name \in {"download-notebook", "download-lesson"},
          environ \in Environs,
          n \in 1..MaxDirs :
           \E files \in [1..n -> EnvFiles] :
               credential = [name |-> name, environ |-> environ,
                             files |-> files, state |-> "start",
                             token |-> <<>>, exit_status |-> -1,
                             requests |-> 0,
                             verbose |-> FALSE, log |-> <<>>]

\* the download scripts started on a token of the process environment, a
\* string of at most MaxTokenLen characters, with or without --verbose
InitLog ==
    /\ notebook = <<>>
    /\ history = <<>>
    /\ cells_to_remove = <<>>
    /\ cells_modified = 0
    /\ written = FALSE
    /\ raised = FALSE
    /\ fetch = NoFetch
    /\ command = NoCommand
    /\ \E name \in {"download-notebook", "download-lesson"},
          value \in SeqsUpTo(TokenChars, MaxTokenLen),
          verbose \in BOOLEAN :
           credential = [name |-> name,
                         environ |-> [set |-> TRUE, value |-> value],
                         files |-> <<>>, state |-> "start",
                         token |-> <<>>, exit_status |-> -1,
                         requests |-> 0,
                         verbose |-> verbose, log |-> <<>>]

\* main() through resolve_env_token: SystemExit(1) when it raises; with
\* --verbose the token found is logged through mask_token
ResolveToken ==
    /\ credential.state = "start"
    /\ \E r \in {resolve_env_token(credential.environ, credential.files,
                                     AUTH_TOKEN)} :
           credential' =
               IF r.raised
               THEN [credential EXCEPT !.state = "exited", !.exit_status = 1]
               ELSE [credential EXCEPT !.state = "resolved",
                                       !.token = r.token,
                                       !.log = @ \o DebugRecords(credential.verbose,
                                                                  FoundRecords(r.token))]
    /\ UNCHANGED <<notebook, history, cells_to_remove, cells_modified,
                   written, raised, fetch, command>>

\* main() goes on to fetch_notebook_metadata / fetch_html with the token
FirstRequest ==
    /\ credential.state = "resolved"
    /\ credential' = [credential EXCEPT
                          !.state = "fetching",
                          !.requests = @ + 1,
                          !.log = @ \o DebugRecords(credential.verbose,
                                                     RequestRecords(credential.name,
                                                                    credential.token))]
    /\ UNCHANGED <<notebook, history, cells_to_remove, cells_modified,
                   written, raised, fetch, command>>

NextCredential == ResolveToken \/ FirstRequest

SpecCredential == InitCredential /\ [][NextCredential]_vars

SpecLog == InitLog /\ [][NextCredential]_vars

----------------------------------------------------------------------------
(* Properties of clean_notebook *)

\* the set of flagged indices of the last clean_notebook
Flagged == {cells_to_remove[k] : k \in 1..Len(cells_to_remove)}

\* where cell i of the document before the run stands after it
NewIndex(i) == i - Cardinality({j \in Flagged : j < i})

\* the flattened text of a cell holds a forbidden substring of the rewrite rules
Forbidden(cell) ==
    LET text == CellText(cell.source)
    IN  \/ Contains(text, <<"jovian", ".commit">>)
        \/ Contains(text, <<"jovian", " ", "clone">>)
        \/ Contains(text, <<"?", "jovian">>)
        \/ ForumPhrase(LowerLine(text))
        \/ (Contains(text, <<"pip", " ", "install">>) /\ Contains(text, <<"jovian">>))

\* C1: running clean_notebook a second time changes nothing: the document
\* after the second run is the document after the first, no cell is deleted
\* and no cell is edited by the second run.
C1_Idempotent ==
    (op = "clean" /\ runs >= 2 /\ history[runs - 1].op = "clean") =>
        /\ notebook = before
        /\ cells_to_remove = <<>>

\* C2: after clean_notebook no remaining cell holds a forbidden substring.
C2_NoForbiddenLeft ==
    op = "clean" => \A k \in 1..Len(notebook) : ~Forbidden(notebook[k])

\* C3: after clean_notebook the document is the document before the run
\* with exactly the flagged cells taken out: no index is flagged twice, the
\* cell count drops by the number of flagged cells, the surviving cells keep
\* their order and type, and at most cells_modified of them differ from the
\* original (none when nothing was edited).
C3_ExactRemoval ==
    op = "clean" =>
        /\ Cardinality(Flagged) = Len(cells_to_remove)
        /\ Flagged \subseteq 1..Len(before)
        /\ Len(notebook) = Len(before) - Len(cells_to_remove)
        /\ \A i \in (1..Len(before)) \ Flagged :
               /\ NewIndex(i) \in 1..Len(notebook)
               /\ notebook[NewIndex(i)].cell_type = before[i].cell_type
               /\ \/ notebook[NewIndex(i)] = before[i]
                  \/ /\ cells_modified > 0
                     /\ notebook[NewIndex(i)].source.lines # before[i].source.lines
        /\ Cardinality({i \in (1..Len(before)) \ Flagged :
                            notebook[NewIndex(i)] # before[i]}) <= cells_modified

\* C3 witness: a run that deleted two cells, one of them a full-sentence
\* "save work" cell, and kept an unedited cell after a deleted one.
C3_Witness ==
    /\ op = "clean" /\ runs = 1
    /\ Len(cells_to_remove) = 2
    /\ cells_modified = 0
    /\ Len(notebook) = 1
    /\ 1 \in Flagged /\ 3 \in Flagged
    /\ \E i \in Flagged :
           /\ before[i].cell_type = "markdown"
           /\ CellText(before[i].source) \in SaveWorkSentences


\* a line that, trimmed, equals or begins with the commit invocation or the
\* help-form marker
CommitOrHelpForm(line) ==
    \/ StartsWith(Strip(line), <<"jovian", ".commit", "(">>)
    \/ StartsWith(Strip(line), <<"?", "jovian">>)

NonEmptyCode(cell) == cell.cell_type = "code" /\ ~Falsy(cell.source)

C9_MarkdownDeletedIffSentence ==
    op = "clean" =>
        \A i \in 1..Len(before) :
            (before[i].cell_type = "markdown") =>
                (i \in Flagged <=>
                     Strip(CellText(before[i].source)) \in
                         {<<"Let's save our work", " before continuing", ".">>,
                          <<"Let's save our work", " before continuing">>})

\* C9 witness: a markdown cell made only of matched lines (a commit line and
\* a forum link) is edited down to nothing, and stays in the document.
C9_Witness ==
    /\ op = "clean" /\ runs = 1
    /\ Len(before) = 1 /\ before[1].cell_type = "markdown"
    /\ Len(before[1].source.lines) = 2
    /\ Contains(CellText(before[1].source), JOVIAN_COMMIT)
    /\ Contains(LowerLine(CellText(before[1].source)), JOVIAN_COM_FORUM)
    /\ Len(notebook) = 1 /\ notebook[1].source.lines = <<>>
    /\ cells_to_remove = <<>> /\ cells_modified = 1

\* a code line with no commit or help-form start, no import of the removed
\* dependency and no install command naming it
UnmatchedCodeLine(line) ==
    /\ ~CommitOrHelpForm(line)
    /\ Strip(line) # <<"import", " ", "jovian">>
    /\ ~StartsWith(Strip(line), <<"import", " ", "jovian", " ">>)
    /\ ~StartsWith(Strip(line), <<"from", " ", "jovian", " ", "import">>)
    /\ ~(Contains(line, <<"pip", " ", "install">>) /\ Contains(line, <<"jovian">>))

UnmatchedCode(cell) ==
    /\ NonEmptyCode(cell)
    /\ \A k \in 1..Len(cell.source.lines) : UnmatchedCodeLine(cell.source.lines[k])

OnlyBlankLines(cell) ==
    \A k \in 1..Len(cell.source.lines) :
        \A n \in 1..Len(cell.source.lines[k]) : IsSpace(cell.source.lines[k][n])

\* C10 as claimed: an unmatched code cell stays in the document with its
\* lines unchanged, a cell of whitespace lines included.
C10_UnmatchedCodeKept ==
    op = "clean" =>
        \A i \in 1..Len(before) :
            UnmatchedCode(before[i]) =>
                i \notin Flagged /\ notebook[NewIndex(i)] = before[i]

\* C10 as amended: an unmatched code cell stays in the document with its
\* lines unchanged unless all its lines are blank, and then it is deleted.
C10_UnmatchedCodeKeptUnlessBlank ==
    op = "clean" =>
        \A i \in 1..Len(before) :
            UnmatchedCode(before[i]) =>
                IF OnlyBlankLines(before[i])
                THEN i \in Flagged
                ELSE i \notin Flagged /\ notebook[NewIndex(i)] = before[i]

\* C10 witness: a document of several cells where a code cell of blank lines
\* only is deleted and an unmatched code cell after it is kept, unchanged, one
\* position earlier.
C10_Witness ==
    /\ op = "clean" /\ runs = 1
    /\ \E i, j \in 1..Len(before) :
           /\ i < j
           /\ UnmatchedCode(before[i]) /\ OnlyBlankLines(before[i])
           /\ i \in Flagged
           /\ UnmatchedCode(before[j]) /\ ~OnlyBlankLines(before[j])
           /\ j \notin Flagged /\ NewIndex(j) < j
           /\ notebook[NewIndex(j)] = before[j]

----------------------------------------------------------------------------
(* Properties of the markdown rewrite, on a document of one markdown cell *)

OneMarkdownCell ==
    /\ op = "clean" /\ Len(before) = 1 /\ Len(notebook) = 1
    /\ before[1].cell_type = "markdown" /\ before[1].source.isList

InLines == before[1].source.lines
OutLines == notebook[1].source.lines

\* a numbered list item "<digits>. <rest>", at any indentation, and its number
IsItem(line) ==
    LET s == LStrip(line)
    IN  Len(s) >= 3 /\ s[1] \in Numbers /\ s[2] = "." /\ IsSpace(s[3])

ItemNumber(line) == CHOOSE n \in 0..MaxNum : ToString(n) = LStrip(line)[1]

BlankLine(line) == \A n \in 1..Len(line) : IsSpace(line[n])
DashLine(line) == LStrip(line) # <<>> /\ LStrip(line)[1] = "-"

\* an indented line that is not an item: the continuation of the item above
ContinuationLine(line) ==
    /\ ~BlankLine(line) /\ ~IsItem(line) /\ IsSpace(line[1])

\* the item head before line k of ls, 0 if there is none
PreviousItem(ls, k) ==
    IF \E j \in 1..(k - 1) : IsItem(ls[j])
    THEN CHOOSE j \in 1..(k - 1) :
             IsItem(ls[j]) /\ \A m \in (j + 1)..(k - 1) : ~IsItem(ls[m])
    ELSE 0

\* C6 as claimed: after a rewrite that removed an item, the items of a list,
\* continuation lines, blank lines and dash bullets between them allowed, are
\* numbered 1, 2, ..., N.
C6_ContiguousWithContinuations ==
    (OneMarkdownCell /\ cells_modified = 1) =>
        \A k \in 1..Len(OutLines) :
            IsItem(OutLines[k]) =>
                LET j == PreviousItem(OutLines, k)
                IN  IF j = 0
                       \/ \E m \in (j + 1)..(k - 1) :
                              ~(\/ BlankLine(OutLines[m]) \/ DashLine(OutLines[m])
                                \/ ContinuationLine(OutLines[m]))
                    THEN ItemNumber(OutLines[k]) = 1
                    ELSE ItemNumber(OutLines[k]) = ItemNumber(OutLines[j]) + 1

\* C6 as amended: after a rewrite that removed an item, the items that only
\* blank lines and dash bullets separate are numbered 1, 2, ..., N; any other
\* line between two items, a continuation line included, restarts the
\* numbering at 1.
C6_ContiguousSingleLineItems ==
    (OneMarkdownCell /\ cells_modified = 1) =>
        \A k \in 1..Len(OutLines) :
            IsItem(OutLines[k]) =>
                LET j == PreviousItem(OutLines, k)
                IN  IF j = 0
                       \/ \E m \in (j + 1)..(k - 1) :
                              ~(BlankLine(OutLines[m]) \/ DashLine(OutLines[m]))
                    THEN ItemNumber(OutLines[k]) = 1
                    ELSE ItemNumber(OutLines[k]) = ItemNumber(OutLines[j]) + 1

\* C6 witness: items 3, 2, 3 of which the second is removed with the blank
\* line after it; the two that remain are renumbered 1 and 2.
C6_Witness ==
    /\ OneMarkdownCell /\ runs = 1 /\ cells_modified = 1
    /\ Len(InLines) = 5
    /\ IsItem(InLines[1]) /\ ItemNumber(InLines[1]) = 3
    /\ IsItem(InLines[2]) /\ Contains(InLines[2], JOVIAN_COMMIT)
    /\ BlankLine(InLines[3])
    /\ IsItem(InLines[4]) /\ ItemNumber(InLines[4]) = 3
    /\ DashLine(InLines[5])
    /\ Len(OutLines) = 3
    /\ IsItem(OutLines[1]) /\ ItemNumber(OutLines[1]) = 1
    /\ IsItem(OutLines[2]) /\ ItemNumber(OutLines[2]) = 2

\* the head of a numbered item that a removal rule matches
MatchedItemHead(line) ==
    /\ Len(Strip(line)) >= 2 /\ Strip(line)[1] \in Numbers /\ Strip(line)[2] = "."
    /\ Contains(line, <<"jovian", ".commit">>)

\* a line no rule matches and the renumbering leaves alone
InertLine(line) == ~IsItem(line) /\ ~Contains(line, <<"jovian">>)

\* lines h..b of ls are a matched item head, its non-blank following lines
\* and the blank line that ends them; every other line is inert
SuppressionWindow(ls, h, b) ==
    /\ h < b
    /\ MatchedItemHead(ls[h])
    /\ \A k \in (h + 1)..(b - 1) : ~BlankLine(ls[k])
    /\ BlankLine(ls[b])
    /\ \A k \in (1..Len(ls)) \ (h..b) : InertLine(ls[k])

----------------------------------------------------------------------------
(* Properties of the badge tools *)

\* the operation before the last one, and the document it started from
PreviousOp == history[runs - 1].op
DocBeforePrevious == history[runs - 1].before

\* a document whose first cell has a sequence of lines, none of them part of
\* a badge
PlainFirstCell(doc) ==
    /\ doc # <<>> /\ doc[1].source.isList
    /\ \A k \in 1..Len(doc[1].source.lines) :
           /\ ~Contains(doc[1].source.lines[k], <<A_OPEN>>)
           /\ ~Contains(doc[1].source.lines[k], <<A_CLOSE>>)

\* C4: fix_notebook followed by remove_colab_tag leaves the first cell's lines
\* as they were before the injection (checked here for first cells that hold
\* no line of a badge before the injection).
C4_BadgeRoundTrip ==
    (runs >= 2 /\ op = "remove" /\ PreviousOp = "fix"
         /\ PlainFirstCell(DocBeforePrevious))
        => notebook[1].source.lines = DocBeforePrevious[1].source.lines

\* C5: a second refresh leaves the first cell's lines as the first refresh
\* left them (checked here for first cells that hold no line of a badge before
\* the first refresh).
C5_RefreshIdempotent ==
    (runs >= 2 /\ op = "refresh" /\ PreviousOp = "refresh"
         /\ PlainFirstCell(DocBeforePrevious))
        => notebook[1].source.lines = before[1].source.lines

----------------------------------------------------------------------------
(* Blank output of the rewrite *)

\* the lines the rewrite of a code cell emits (none when a commit or
\* help-form line ends the scan)
CodeOutput(cell) == clean_code_cell(cell.source).cleaned_lines

\* a markdown cell that clean_notebook sends to the rewrite
RewrittenMarkdown(cell) ==
    /\ cell.cell_type = "markdown" /\ ~Falsy(cell.source)
    /\ Strip(CellText(cell.source)) \notin SaveWorkSentences
    /\ MarkdownEditTrigger(CellText(cell.source))

\* the lines the rewrite of a markdown cell emits
MarkdownOutput(cell) == clean_markdown_cell(cell.source).cleaned_text.lines

\* C11 as claimed: a cell, code or markdown, whose rewrite emits no line or
\* only blank lines is removed from the document.
C11_BlankOutputDeleted ==
    op = "clean" =>
        \A i \in 1..Len(before) :
            /\ (NonEmptyCode(before[i]) /\ AllBlank(CodeOutput(before[i])))
                   => i \in Flagged
            /\ (RewrittenMarkdown(before[i]) /\ AllBlank(MarkdownOutput(before[i])))
                   => i \in Flagged

\* C11: a code cell whose rewrite emits no line or only blank lines is
\* removed from the document; a markdown cell whose rewrite emits no line or
\* only blank lines stays in the document, with the emitted lines as its
\* source when the rewrite modified it.
C11_BlankCodeOutputDeleted ==
    op = "clean" =>
        \A i \in 1..Len(before) :
            /\ (NonEmptyCode(before[i]) /\ AllBlank(CodeOutput(before[i])))
                   => i \in Flagged
            /\ (RewrittenMarkdown(before[i]) /\ AllBlank(MarkdownOutput(before[i])))
                   => /\ i \notin Flagged
                      /\ clean_markdown_cell(before[i].source).modified
                             => notebook[NewIndex(i)].source.lines
                                    = MarkdownOutput(before[i])

\* C11 witness: a code cell of an import line and a blank line, whose rewrite
\* emits the blank line only, is deleted.
C11_Witness ==
    /\ op = "clean" /\ runs = 1
    /\ Len(before) = 1 /\ NonEmptyCode(before[1])
    /\ Len(before[1].source.lines) = 2
    /\ CodeOutput(before[1]) = <<<<"\n">>>>
    /\ ImportLine(Strip(before[1].source.lines[1]))
    /\ cells_to_remove = <<1>> /\ notebook = <<>>

----------------------------------------------------------------------------
(* Properties of the install-directive rewrite, on a document of one cell *)
(* whose first line is an install line                                     *)

\* the install line before the run
InstallLine == before[1].source.lines[1]

\* a token of a package other than the removed dependency
OtherPackageToken(t) == t \in {"pandas", "2.0"}

NoDoubleSpace(line) ==
    \A k \in 1..(Len(line) - 1) : ~(line[k] = " " /\ line[k + 1] = " ")

\* C12: an install line that names the removed dependency together with
\* other packages is emitted without the dependency token, with every other
\* package token in its original order and with no run of two spaces.
C12_InstallRewritten ==
    (op = "clean" /\ Len(before) = 1 /\ Len(before[1].source.lines) = 2
         /\ Contains(InstallLine, PIP_INSTALL) /\ Contains(InstallLine, JOVIAN)
         /\ Contains(InstallLine, <<"pandas">>))
        => /\ Len(notebook) = 1 /\ Len(notebook[1].source.lines) = 2
           /\ ~Contains(notebook[1].source.lines[1], JOVIAN)
           /\ SelectSeq(notebook[1].source.lines[1], OtherPackageToken)
                  = SelectSeq(InstallLine, OtherPackageToken)
           /\ NoDoubleSpace(notebook[1].source.lines[1])

\* an install line whose only arguments are the removed dependency, bare or
\* pinned with ==, and options
OnlyDependencyArgs(line) ==
    /\ Contains(line, PIP_INSTALL) /\ Contains(line, JOVIAN)
    /\ ~Contains(line, <<"pandas">>) /\ ~Contains(line, <<"~=">>)

\* C13: in a code cell and in a markdown cell alike, an install line left
\* with no package argument once the dependency token is stripped is not
\* emitted: only the cell's other line is left.
C13_EmptiedInstallDropped ==
    (op = "clean" /\ Len(before) = 1 /\ Len(before[1].source.lines) = 2
         /\ OnlyDependencyArgs(InstallLine))
        => /\ Len(notebook) = 1
           /\ notebook[1].source.lines = <<before[1].source.lines[2]>>

----------------------------------------------------------------------------
(* Properties of remove_colab_tag and fix_notebook *)

\* the first cell's lines before and after the last operation
FirstBefore == before[1].source.lines
FirstAfter == notebook[1].source.lines

HasAnchor(ls) == \E k \in 1..Len(ls) : AnchorLine(ls[k])

\* the index of the first anchor line
FirstAnchor(ls) ==
    CHOOSE a \in 1..Len(ls) :
        AnchorLine(ls[a]) /\ \A k \in 1..(a - 1) : ~AnchorLine(ls[k])

HasClosing(ls, a) == \E c \in a..Len(ls) : Contains(ls[c], <<A_CLOSE>>)

\* the index of the first line, from a on, that holds the closing tag
ClosingLine(ls, a) ==
    CHOOSE c \in a..Len(ls) :
        /\ Contains(ls[c], <<A_CLOSE>>)
        /\ \A k \in a..(c - 1) : ~Contains(ls[k], <<A_CLOSE>>)

\* the index of the last of the blank lines that follow line c at once
\* (c itself when none does)
BlockEnd(ls, c) ==
    CHOOSE e \in c..Len(ls) :
        /\ \A k \in (c + 1)..e : Strip(ls[k]) = <<>>
        /\ e = Len(ls) \/ Strip(ls[e + 1]) # <<>>

\* C14: remove_colab_tag on a first cell with a sequence of lines.  With an
\* anchor line and a closing-tag line it removes exactly the range from the
\* first anchor line through the closing-tag line and the blank lines right
\* after it: the lines before and after the range are left as they were, in
\* order, a later badge included, and the other cells are unchanged.  With
\* no anchor line the document is unchanged and not written.
C14_RemoverContract ==
    (op = "remove" /\ before # <<>> /\ before[1].source.isList) =>
        /\ ~raised
        /\ Len(notebook) = Len(before)
        /\ \A i \in 2..Len(before) : notebook[i] = before[i]
        /\ ~HasAnchor(FirstBefore) => (notebook = before /\ ~written)
        /\ (HasAnchor(FirstBefore) /\ HasClosing(FirstBefore, FirstAnchor(FirstBefore)))
               => /\ written
                  /\ FirstAfter =
                         SubSeq(FirstBefore, 1, FirstAnchor(FirstBefore) - 1)
                             \o SubSeq(FirstBefore,
                                       BlockEnd(FirstBefore,
                                                ClosingLine(FirstBefore,
                                                            FirstAnchor(FirstBefore))) + 1,
                                       Len(FirstBefore))

\* C14 witness: the badge and its two separators, injected between the lines
\* of a first cell, are removed, and the lines before and after are left.
C14_Witness ==
    /\ runs = 2 /\ op = "remove" /\ PreviousOp = "fix"
    /\ Len(before) = 2 /\ Len(notebook) = 2
    /\ FirstBefore = <<<<"text", "\n">>, <<"\n">>, COLAB_TAG, <<"\n">>, <<"\n">>,
                       <<"text", "\n">>>>
    /\ FirstAfter = <<<<"text", "\n">>, <<"\n">>, <<"text", "\n">>>>
    /\ notebook[2] = before[2]

\* the first cell after the last operation is the first cell before it with
\* the markup and two "\n" lines put in after its first p lines
InsertedAfter(p) ==
    FirstAfter = SubSeq(FirstBefore, 1, p)
                     \o <<COLAB_TAG, <<"\n">>, <<"\n">>>>
                     \o SubSeq(FirstBefore, p + 1, Len(FirstBefore))

\* the number of lines equal to the markup
BadgeCount(ls) == Cardinality({k \in 1..Len(ls) : ls[k] = COLAB_TAG})

\* what fix_notebook leaves alone and never does
InjectorFrame ==
    /\ ~raised /\ written
    /\ Len(notebook) = Len(before)
    /\ \A i \in 2..Len(before) : notebook[i] = before[i]
    /\ BadgeCount(FirstAfter) = BadgeCount(FirstBefore) + 1
    /\ (runs >= 2 /\ PreviousOp = "fix")
           => BadgeCount(FirstAfter)
                  = BadgeCount(DocBeforePrevious[1].source.lines) + 2

\* C15 as claimed: fix_notebook on a first cell with a sequence of lines puts
\* the markup at index 2 (counted from 0), followed by the separators.
C15_InsertedAtIndexTwo ==
    (op = "fix" /\ before # <<>> /\ before[1].source.isList) =>
        /\ InjectorFrame
        /\ FirstAfter[3] = COLAB_TAG

\* C15: fix_notebook on a first cell with a sequence of lines puts the markup
\* and two "\n" lines after the first two lines of the cell, or at the end of
\* a cell of fewer than two lines; the lines of the cell keep their order
\* around the block, no other cell changes, and a second call stacks a second
\* block.
C15_InjectorContract ==
    (op = "fix" /\ before # <<>> /\ before[1].source.isList) =>
        /\ InjectorFrame
        /\ InsertedAfter(IF Len(FirstBefore) < 2 THEN Len(FirstBefore) ELSE 2)

\* C15 witness: two calls in a row on a first cell of three lines leave two
\* stacked blocks after its first two lines and its third line after them.
C15_Witness ==
    /\ runs = 2 /\ op = "fix" /\ PreviousOp = "fix"
    /\ Len(notebook) = 2
    /\ DocBeforePrevious[1].source.lines
           = <<<<"text", "\n">>, <<"\n">>, <<"text", "\n">>>>
    /\ FirstAfter = <<<<"text", "\n">>, <<"\n">>,
                      COLAB_TAG, <<"\n">>, <<"\n">>,
                      COLAB_TAG, <<"\n">>, <<"\n">>,
                      <<"text", "\n">>>>

----------------------------------------------------------------------------
(* Properties of what clean_notebook persists *)

\* some cell that survives has other lines than it had when loaded
SomeCellRewritten ==
    \E i \in (1..Len(before)) \ Flagged :
        NewIndex(i) \in 1..Len(notebook)
            /\ notebook[NewIndex(i)].source.lines # before[i].source.lines

\* C16 as claimed: clean_notebook writes the document exactly when a cell was
\* removed or the lines of a cell differ from those loaded; a document equal
\* to the one loaded is never written.
C16_WrittenIffChanged ==
    op = "clean" =>
        /\ written <=> (Flagged # {} \/ SomeCellRewritten)
        /\ written => notebook # before

\* C17 as claimed: after clean_notebook every surviving cell has a source of
\* the kind it was loaded with, one string or a sequence of lines.
C17_RepresentationPreserved ==
    op = "clean" =>
        \A i \in (1..Len(before)) \ Flagged :
            NewIndex(i) \in 1..Len(notebook)
                /\ notebook[NewIndex(i)].source.isList
                       = before[i].source.isList

----------------------------------------------------------------------------
(* Properties of the network fetches *)

\* the outcome of the last urlopen of the call
LastOutcome == fetch.outcomes[Len(fetch.outcomes)]

\* the call has ended / has ended in an exception
FetchEnded == fetch.state \in {"returned", "RuntimeError", "OSError"}
FetchFailed == fetch.state \in {"RuntimeError", "OSError"}

\* a failure of connectivity, as opposed to an answer of the server
TransientFailure(outcome) == outcome \in {"URLError", "OSError"}

\* C18 as claimed: a transient failure on an attempt before the last allowed
\* one does not end the call (another attempt follows); `retries` transient
\* failures in a row end it in failure; an HTTP status failure on any attempt
\* ends it in failure; and an ended call has made no attempt after the
\* outcome that ended it.
C18_RetryProtocol ==
    fetch.outcomes # <<>> =>
        /\ fetch.attempt = Len(fetch.outcomes)
        /\ fetch.attempt <= fetch.retries
        /\ \A k \in 1..(Len(fetch.outcomes) - 1) :
               TransientFailure(fetch.outcomes[k])
        /\ (TransientFailure(LastOutcome) /\ fetch.attempt < fetch.retries)
               => ~FetchEnded
        /\ (TransientFailure(LastOutcome) /\ fetch.attempt = fetch.retries)
               => FetchFailed
        /\ LastOutcome = "HTTPError" => FetchFailed

----------------------------------------------------------------------------
(* Properties of the refresh workflow *)

\* C20 as claimed: a refresh of a document that has a first cell either
\* completes, the persisted document being the one loaded with its first
\* badge removed and a new badge injected, or ends in an exception with the
\* persisted document as it was before the refresh.
C20_NoPartialWrite ==
    (op \in {"refresh", "refresh failing"} /\ before # <<>>) =>
        IF raised
        THEN notebook = before
        ELSE notebook = FixResult(RemoveResult(before).cells, COLAB_TAG).cells

----------------------------------------------------------------------------
(* Properties of the command surfaces *)

\* C19 as claimed: a run that has ended has a non-zero exit status when some
\* document it went through failed or was missing, and status 0 only when
\* every document succeeded.
C19_ExitStatus ==
    ~Running =>
        /\ command.exit_status = 0
               => \A k \in 1..Len(command.documents) :
                      command.documents[k] = "ok"
        /\ (\E k \in 1..Len(command.documents) :
                k < command.index /\ command.documents[k] # "ok")
               => command.exit_status # 0

----------------------------------------------------------------------------
(* Tag operations on a document with no cell *)

\* C21: fix_notebook and remove_colab_tag on a document whose cell list is
\* empty end in an exception and do not write the file.
C21_EmptyDocumentFatal ==
    (op \in {"fix", "remove"} /\ before = <<>>) =>
        raised /\ ~written /\ notebook = <<>>

\* C21 witness: both operations have been run on the empty document, each
\* ending in an exception, and nothing was written.
C21_Witness ==
    /\ runs = 2 /\ op = "remove" /\ PreviousOp = "fix"
    /\ DocBeforePrevious = <<>> /\ before = <<>>
    /\ raised /\ ~written /\ notebook = <<>>

----------------------------------------------------------------------------
(* Properties of the credential resolution *)

\* line i of the file assigns to AUTH_TOKEN
AssignsToken(file, i) ==
    /\ ~SkippedLine(Strip(file.lines[i]))
    /\ LineKey(Strip(file.lines[i])) = AUTH_TOKEN

\* the file defines a non-empty value for AUTH_TOKEN: its last assignment to
\* the key has one
DefinesToken(file) ==
    /\ file.exists
    /\ \E i \in 1..Len(file.lines) :
           /\ AssignsToken(file, i)
           /\ \A j \in (i + 1)..Len(file.lines) : ~AssignsToken(file, j)
           /\ LineValue(Strip(file.lines[i])) # <<>>

\* the value a file that defines one gives to AUTH_TOKEN
DefinedToken(file) ==
    LineValue(Strip(file.lines[
        CHOOSE i \in 1..Len(file.lines) :
            /\ AssignsToken(file, i)
            /\ \A j \in (i + 1)..Len(file.lines) : ~AssignsToken(file, j)]))

\* the nearest directory whose .env file defines a non-empty value
NearestDefining(files) ==
    CHOOSE i \in 1..Len(files) :
        DefinesToken(files[i]) /\ \A j \in 1..(i - 1) : ~DefinesToken(files[j])

\* C22: once the script is past resolve_env_token, the token is the value of
\* the process environment when that is set and non-empty; otherwise the
\* value of the nearest .env file, from the working directory upward, that
\* defines a non-empty value; and when there is neither the script has exited
\* with status 1 and has sent no request.
C22_CredentialOrder ==
    credential.state \in {"resolved", "fetching", "exited"} =>
        IF credential.environ.set /\ credential.environ.value # <<>>
        THEN credential.token = credential.environ.value
                 /\ credential.exit_status = -1
        ELSE IF \E i \in 1..Len(credential.files) :
                    DefinesToken(credential.files[i])
        THEN credential.token =
                 DefinedToken(credential.files[NearestDefining(credential.files)])
                 /\ credential.exit_status = -1
        ELSE credential.state = "exited" /\ credential.exit_status = 1
                 /\ credential.requests = 0

\* C22 witness: the environment holds an empty value, the .env file of the
\* working directory assigns an empty value, the one above it defines tok-2,
\* and the request goes out with tok-2.
C22_Witness ==
    /\ credential.state = "fetching" /\ credential.requests = 1
    /\ credential.environ = [set |-> TRUE, value |-> <<>>]
    /\ credential.files = <<EnvFile(<<<<"AUTH_TOKEN", "=">>>>),
                            EnvFile(<<<<"AUTH_TOKEN", "=", "tok-2">>>>)>>
    /\ credential.token = <<"tok-2">>

----------------------------------------------------------------------------
(* Properties of the line loop of clean_markdown_cell *)

\* the state of the loop before and after line k of the cell
LoopBefore(k) == RewriteLines(SubSeq(InLines, 1, k - 1))
LoopAfter(k) == RewriteLines(SubSeq(InLines, 1, k))

\* line k of the cell is dropped: the loop emits nothing for it
Dropped(k) == LoopAfter(k).cleaned_lines = LoopBefore(k).cleaned_lines

\* C23: while skip_until_blank is true a non-blank line is dropped and the
\* flag stays true; a blank line is dropped and clears the flag, so that the
\* line after it is processed with the flag false.
C23_SuppressionWindow ==
    OneMarkdownCell =>
        \A k \in 1..Len(InLines) :
            LoopBefore(k).skip_until_blank =>
                /\ Dropped(k)
                /\ LoopAfter(k).skip_until_blank = ~BlankLine(InLines[k])

\* C23 witness: an item that names the commit action, a text line and a blank
\* line; the flag is true before the second and the third line, false after
\* the third, and nothing is emitted.
C23_Witness ==
    /\ OneMarkdownCell /\ Len(InLines) = 3
    /\ MatchedItemHead(InLines[1])
    /\ InLines[2] = <<"text", "\n">> /\ BlankLine(InLines[3])
    /\ LoopBefore(2).skip_until_blank /\ LoopBefore(3).skip_until_blank
    /\ ~LoopAfter(3).skip_until_blank
    /\ OutLines = <<>>

\* line k of the cell is shaped like a numbered item: its stripped text is
\* digits and a dot
NumberedShape(k) ==
    Len(Strip(InLines[k])) >= 2
        /\ Strip(InLines[k])[1] \in Numbers /\ Strip(InLines[k])[2] = "."

\* the three removal rules, as tests on line k
CloneOrHelpLine(k) ==
    Contains(InLines[k], JOVIAN_CLONE) \/ Contains(InLines[k], HELP_JOVIAN)
CommitNameLine(k) == Contains(InLines[k], JOVIAN_COMMIT)
ForumReferenceLine(k) == ForumPhrase(LowerLine(InLines[k]))

\* line k turns skip_until_blank from false to true
StartsSuppression(k) ==
    ~LoopBefore(k).skip_until_blank /\ LoopAfter(k).skip_until_blank

\* C24 as claimed: the flag turns from false to true only on a dropped line
\* that is numbered and matches a removal rule, or on a line that is not
\* numbered, names the commit action and holds "saving your work" or "save a
\* snapshot" in lower case; any other line that is not numbered and names the
\* commit action, and a forum line that is not numbered and holds "forum",
\* are dropped with the flag unchanged.
C24_SuppressionTriggers ==
    OneMarkdownCell =>
        \A k \in 1..Len(InLines) :
            /\ StartsSuppression(k) =>
                   /\ Dropped(k)
                   /\ \/ NumberedShape(k)
                            /\ (CloneOrHelpLine(k) \/ CommitNameLine(k)
                                    \/ ForumReferenceLine(k))
                      \/ ~NumberedShape(k) /\ CommitNameLine(k)
                            /\ (\/ Contains(LowerLine(InLines[k]), SAVING_YOUR_WORK)
                                \/ Contains(LowerLine(InLines[k]), SAVE_A_SNAPSHOT))
            /\ (~NumberedShape(k) /\ ~CloneOrHelpLine(k) /\ CommitNameLine(k)
                    /\ ~Contains(LowerLine(InLines[k]), SAVING_YOUR_WORK)
                    /\ ~Contains(LowerLine(InLines[k]), SAVE_A_SNAPSHOT))
                   => Dropped(k)
                          /\ LoopAfter(k).skip_until_blank
                                 = LoopBefore(k).skip_until_blank
            /\ (~NumberedShape(k) /\ ~CloneOrHelpLine(k) /\ ~CommitNameLine(k)
                    /\ ForumReferenceLine(k)
                    /\ Contains(LowerLine(InLines[k]), FORUM))
                   => Dropped(k)
                          /\ LoopAfter(k).skip_until_blank
                                 = LoopBefore(k).skip_until_blank

----------------------------------------------------------------------------
(* Properties of the renumbering pass *)

\* the lines the line rewrite hands to the renumbering pass
RewrittenLines == RewriteLines(InLines).cleaned_lines

\* line with the token at position p replaced by the number n
WithNumber(line, p, n) == [line EXCEPT ![p] = ToString(n)]

\* C26 as claimed: in a modified cell the renumbering pass outputs as many
\* lines as it is given; a numbered line comes out as it went in but for its
\* number (same indentation, same rest, same line terminator), and every
\* other line comes out unchanged.
C26_OnlyNumberChanges ==
    (OneMarkdownCell /\ cells_modified = 1) =>
        /\ Len(OutLines) = Len(RewrittenLines)
        /\ \A k \in 1..Len(RewrittenLines) :
               IF IsItem(RewrittenLines[k])
               THEN \E n \in 1..MaxNum :
                        OutLines[k] =
                            WithNumber(RewrittenLines[k],
                                       FirstNonSpace(RewrittenLines[k]), n)
               ELSE OutLines[k] = RewrittenLines[k]

\* the state of the renumbering loop after the first k lines it is given
RenumberAfter(k) ==
    RenumberLoop(SubSeq(RewrittenLines, 1, k), 1,
                 [result |-> <<>>, current_num |-> 1, in_list |-> FALSE])

\* C27: in a modified cell the counter starts at 1; a numbered line, indented
\* or not, takes the current counter and increments it; a blank line and a
\* dash bullet leave the counter and in_list as they are; any other non-blank
\* line seen while in_list is true resets the counter to 1 and in_list to
\* false.
C27_CounterTransitions ==
    (OneMarkdownCell /\ cells_modified = 1) =>
        /\ RenumberAfter(0).current_num = 1 /\ ~RenumberAfter(0).in_list
        /\ Len(OutLines) = Len(RewrittenLines)
        /\ \A k \in 1..Len(RewrittenLines) :
               IF IsItem(RewrittenLines[k])
               THEN /\ IsItem(OutLines[k])
                    /\ ItemNumber(OutLines[k]) = RenumberAfter(k - 1).current_num
                    /\ RenumberAfter(k).current_num
                           = RenumberAfter(k - 1).current_num + 1
                    /\ RenumberAfter(k).in_list
               ELSE IF BlankLine(RewrittenLines[k]) \/ DashLine(RewrittenLines[k])
                       \/ ~RenumberAfter(k - 1).in_list
               THEN /\ RenumberAfter(k).current_num
                           = RenumberAfter(k - 1).current_num
                    /\ RenumberAfter(k).in_list = RenumberAfter(k - 1).in_list
               ELSE /\ RenumberAfter(k).current_num = 1
                    /\ ~RenumberAfter(k).in_list

\* C27 witness: an item, an indented item, a line of text and an item in a
\* modified cell: they come out numbered 1, 2 and, after the line of text has
\* reset the counter, 1.
C27_Witness ==
    /\ OneMarkdownCell /\ cells_modified = 1
    /\ Len(RewrittenLines) = 4 /\ Len(OutLines) = 4
    /\ IsItem(RewrittenLines[1]) /\ ~IsSpace(RewrittenLines[1][1])
    /\ IsItem(RewrittenLines[2]) /\ IsSpace(RewrittenLines[2][1])
    /\ ~IsItem(RewrittenLines[3]) /\ ~BlankLine(RewrittenLines[3])
    /\ ~DashLine(RewrittenLines[3])
    /\ IsItem(RewrittenLines[4])
    /\ ItemNumber(OutLines[1]) = 1 /\ ItemNumber(OutLines[2]) = 2
    /\ ItemNumber(OutLines[4]) = 1

\* C28 as claimed: when the line rewrite of a markdown cell drops no line and
\* changes no line, the cell keeps its lines, the numbers of its lists
\* included, and is not counted as modified.
C28_RenumberOnlyIfRewritten ==
    (OneMarkdownCell /\ RewrittenLines = InLines) =>
        OutLines = InLines /\ cells_modified = 0

----------------------------------------------------------------------------
(* The frame of the code-cell rewrite *)

\* "import <dep>", alone or followed by more, or "from <dep> import ..."
DependencyImport(line) ==
    \/ Strip(line) = <<"import", " ", "jovian">>
    \/ StartsWith(Strip(line), <<"import", " ", "jovian", " ">>)
    \/ StartsWith(Strip(line), <<"from", " ", "jovian", " ", "import">>)

\* an install line that names the removed dependency
InstallNamingDependency(line) ==
    Contains(line, <<"pip", " ", "install">>) /\ Contains(line, <<"jovian">>)

InstallOptionToken(t) == t \in {"--quiet", "--upgrade", "-q"}

\* the package arguments of an install line other than the dependency
OtherPackages(line) ==
    SelectSeq(line, LAMBDA t : /\ ~IsSpace(t) /\ ~InstallOptionToken(t)
                               /\ t \notin {"!", "pip", "install", "jovian"})

\* an install line left with no package once the dependency is taken out
LeftWithNoPackage(line) ==
    InstallNamingDependency(line) /\ OtherPackages(line) = <<>>

DroppedByFrame(line) == DependencyImport(line) \/ LeftWithNoPackage(line)

KeptByFrame(line) == ~DroppedByFrame(line)

\* a code cell with a list source and no commit or help-form line
FrameCell ==
    /\ op = "clean" /\ Len(before) = 1
    /\ NonEmptyCode(before[1]) /\ before[1].source.isList
    /\ \A k \in 1..Len(InLines) : ~CommitOrHelpForm(InLines[k])

\* out holds, in order, one line for each line of kept, equal to it unless
\* it is an install line naming the dependency
FrameOf(kept, out) ==
    /\ Len(out) = Len(kept)
    /\ \A j \in 1..Len(kept) :
           ~InstallNamingDependency(kept[j]) => out[j] = kept[j]

\* C29 as claimed: of a code cell with no commit or help-form line, exactly
\* the imports of the removed dependency and the install lines left with no
\* package are dropped, only install lines naming the dependency are
\* rewritten, and every other line is emitted unchanged and in order (a cell
\* taken out of the document had only blank lines left).
C29_CodeRewriteFrame ==
    FrameCell =>
        IF Len(notebook) = 1
        THEN FrameOf(SelectSeq(InLines, KeptByFrame), OutLines)
        ELSE \A k \in 1..Len(InLines) :
                 KeptByFrame(InLines[k]) => Strip(InLines[k]) = <<>>

----------------------------------------------------------------------------
(* Totality and order of the markdown line rewrite *)

\* the state of the loop of clean_notebooks_smart.py before and after line k
SmartBefore(k) == SmartRewriteLines(SubSeq(InLines, 1, k - 1))
SmartAfter(k) == SmartRewriteLines(SubSeq(InLines, 1, k))

\* the forms in which the two loops can emit a line
EmittedForms(line) ==
    {line, PipRewrite(line), HeaderSub(line, 1), HeaderSub(PipRewrite(line), 1)}

\* from b to a the loop dropped the line, or emitted it once, as the last
\* line, in one of its forms
DroppedOrEmittedOnce(b, a, line) ==
    \/ a = b
    \/ \E x \in EmittedForms(line) : a = Append(b, x)

\* C30: on every cell the line rewrite of both cleaners ends without raising;
\* line by line it leaves the emitted lines as they are (the line is dropped)
\* or adds the line once at their end, as it was or rewritten, so the emitted
\* lines keep the input order and are never more than the input lines.
C30_RewriteTotalAndOrdered ==
    OneMarkdownCell =>
        /\ ~raised
        /\ \A k \in 1..Len(InLines) :
               /\ DroppedOrEmittedOnce(LoopBefore(k).cleaned_lines,
                                       LoopAfter(k).cleaned_lines, InLines[k])
               /\ DroppedOrEmittedOnce(SmartBefore(k).cleaned_lines,
                                       SmartAfter(k).cleaned_lines, InLines[k])
        /\ Len(RewrittenLines) <= Len(InLines)
        /\ Len(SmartRewriteLines(InLines).cleaned_lines) <= Len(InLines)
        /\ Len(OutLines) <= Len(InLines)

\* C30 witness: a header that is rewritten, a line that names the commit
\* action and is dropped, and a text line that is emitted as it was.
C30_Witness ==
    /\ OneMarkdownCell /\ Len(InLines) = 3
    /\ InLines[1] = <<"#", " ", "Summary", " ", "and", " ", "Save", " ", "Your", " ", "Work", "\n">>
    /\ Contains(InLines[2], <<"jovian", ".commit">>)
    /\ InLines[3] = <<"text", "\n">>
    /\ RewrittenLines = <<<<"#", " ", "Summary", "\n">>, <<"text", "\n">>>>
    /\ OutLines = RewrittenLines

----------------------------------------------------------------------------
(* The order of the steps of the line rewrite *)

\* The tests and effects of the loop of clean_markdown_cell, taken in the
\* order suppression check, header normalization, removal rules (clone and
\* help, commit, forum), install rewrite, emit.

\* the install rewrite and the emission, on the line after the header rewrite
OrderedEmit(st, line) ==
    [cleaned_lines |->
         Append(st.cleaned_lines,
                IF Contains(line, PIP_INSTALL) /\ Contains(line, JOVIAN)
                THEN PipRewrite(line) ELSE line),
     skip_until_blank |-> FALSE,
     modified |-> st.modified]

\* the removal rules, on the line after the header rewrite
OrderedRules(st, line_lower, line, numbered, forum) ==
    IF Contains(line, JOVIAN_CLONE) \/ Contains(line, HELP_JOVIAN)
    THEN [cleaned_lines |-> st.cleaned_lines, skip_until_blank |-> numbered,
          modified |-> TRUE]
    ELSE IF Contains(line, JOVIAN_COMMIT)
    THEN [cleaned_lines |-> st.cleaned_lines,
          skip_until_blank |-> numbered \/ SavePhrase(line_lower),
          modified |-> TRUE]
    ELSE IF forum /\ (numbered \/ Contains(line_lower, FORUM))
    THEN [cleaned_lines |-> st.cleaned_lines, skip_until_blank |-> numbered,
          modified |-> TRUE]
    ELSE OrderedEmit(st, line)

OrderedHeaded(st, line_lower, line) ==
    OrderedRules(st, line_lower, line,
                 NumberedPrefix(Strip(line)), ForumPhrase(line_lower))

\* the suppression check first, then the header normalization
OrderedStep(st, line) ==
    IF st.skip_until_blank
    THEN [cleaned_lines |-> st.cleaned_lines,
          skip_until_blank |-> ~(Strip(line) = <<>>),
          modified |-> TRUE]
    ELSE IF StartsWith(line, <<"#">>) /\ Contains(LowerLine(line), SAVE_YOUR_WORK)
    THEN OrderedHeaded(st, LowerLine(line), HeaderSub(line, 1))
    ELSE OrderedHeaded(st, LowerLine(line), line)

RECURSIVE OrderedLoop(_, _, _)
OrderedLoop(lines, i, st) ==
    IF i > Len(lines) THEN st
    ELSE OrderedLoop(lines, i + 1, OrderedStep(st, lines[i]))

OrderedRewrite(lines) ==
    OrderedLoop(lines, 1,
                [cleaned_lines |-> <<>>, skip_until_blank |-> FALSE,
                 modified |-> FALSE])

\* C31 as claimed: on every cell the loop in the order suppression check,
\* header normalization, removal rules emits the same lines and ends with
\* the same skip_until_blank as the loop of the code.
C31_StepOrderEquivalent ==
    (OneMarkdownCell /\ RewrittenMarkdown(before[1])) =>
        /\ OrderedRewrite(InLines).cleaned_lines = RewrittenLines
        /\ OrderedRewrite(InLines).skip_until_blank
               = RewriteLines(InLines).skip_until_blank

----------------------------------------------------------------------------
(* Line boundaries of the install rewrite *)

EndsWithNewline(line) == line # <<>> /\ line[Len(line)] = "\n"

\* C32 as claimed: an install line naming the dependency that ended with a
\* line terminator and is emitted rewritten still ends with one, so the
\* cell's flattened text keeps it apart from the line after it.
C32_InstallKeepsLineEnd ==
    (/\ op = "clean" /\ Len(before) = 1 /\ Len(before[1].source.lines) = 2
     /\ Contains(InstallLine, PIP_INSTALL) /\ Contains(InstallLine, JOVIAN)
     /\ EndsWithNewline(InstallLine)
     /\ Len(notebook) = 1 /\ Len(notebook[1].source.lines) = 2
     /\ notebook[1].source.lines[1] # InstallLine)
        => EndsWithNewline(notebook[1].source.lines[1])

----------------------------------------------------------------------------
(* The waits of the fetch loops *)

\* C33: the j-th wait of a fetch loop is 2^(j-1) seconds, twice the wait
\* before it; a wait follows every attempt but the last one, which a read
\* response, an HTTPError, the URLError of the last permitted attempt or any
\* other exception ends without a wait.
C33_BackoffSchedule ==
    fetch.fn \in FetchFunctions =>
        /\ \A j \in 1..Len(fetch.slept) : fetch.slept[j] = 2 ^ (j - 1)
        /\ \A j \in 2..Len(fetch.slept) : fetch.slept[j] = 2 * fetch.slept[j - 1]
        /\ fetch.state = "sleep" =>
               /\ Len(fetch.slept) = fetch.attempt
               /\ fetch.outcomes[fetch.attempt] = "URLError"
               /\ fetch.attempt < fetch.retries
        /\ fetch.state = "try" => Len(fetch.slept) = fetch.attempt
        /\ fetch.state \in {"returned", "RuntimeError", "OSError"} =>
               Len(fetch.slept) = fetch.attempt - 1

\* C33 witness: with four attempts allowed, four connection failures: the
\* waits were 1, 2 and 4 seconds and the fourth failure ended the call.
C33_Witness ==
    /\ fetch.fn = "download_file" /\ fetch.retries = 4
    /\ fetch.outcomes = <<"URLError", "URLError", "URLError", "URLError">>
    /\ fetch.state = "RuntimeError"
    /\ fetch.slept = <<1, 2, 4>>

----------------------------------------------------------------------------
(* The end of the fetch loops *)

Max(a, b) == IF a >= b THEN a ELSE b

\* C34 as claimed: a fetch loop never makes more than max(1, retries)
\* attempts, and a call that has ended has returned the response, has failed
\* on an HTTP status error, or has failed on the connection failure of its
\* last permitted attempt.
C34_BoundedAttemptsAndEnds ==
    fetch.fn \in FetchFunctions =>
        /\ fetch.attempt <= Max(1, fetch.retries)
        /\ FetchEnded =>
               \/ fetch.state = "returned"
               \/ fetch.state = "RuntimeError" /\ LastOutcome = "HTTPError"
               \/ /\ fetch.state = "RuntimeError" /\ LastOutcome = "URLError"
                  /\ fetch.attempt >= fetch.retries

----------------------------------------------------------------------------
(* The destination file of download_file *)

\* C35: the destination file is written only by a download_file whose
\* request was answered and read; a call that has failed, on an HTTP status
\* error, on exhausted retries or otherwise, has not written it.
C35_WriteOnlyAfterSuccess ==
    fetch.fn \in FetchFunctions =>
        /\ written =>
               /\ fetch.fn = "download_file" /\ fetch.state = "returned"
               /\ LastOutcome = "ok"
        /\ FetchFailed => ~written

\* C35 witness: a download_file that met two connection failures and then an
\* HTTP status error has failed on its third attempt without writing.
C35_Witness ==
    /\ fetch.fn = "download_file" /\ fetch.state = "RuntimeError"
    /\ fetch.outcomes = <<"URLError", "URLError", "HTTPError">>
    /\ ~written

----------------------------------------------------------------------------
(* The token in the log *)

\* the characters of the token that a logged value shows
Revealed(value) ==
    Cardinality({i \in 1..Len(value) : value[i] \notin {"***", "..."}})

\* C36 as claimed: every log record that mentions the token holds what
\* mask_token gives for it, and for a non-empty token that shows fewer
\* characters than the token has.
C36_TokenMaskedInLog ==
    \A j \in 1..Len(credential.log) :
        /\ credential.log[j].value = mask_token(credential.token, VISIBLE)
        /\ credential.token # <<>> =>
               Revealed(credential.log[j].value) < Len(credential.token)

====
